---- MODULE Spec2Model ----
(***************************************************************************)
(* A model of the kids-register sketch: the mode dispatcher (setup, loop,  *)
(* pollTouchInput), RegisterMode (cart, NORMAL/THANK_YOU state, frame      *)
(* readers of the barcode UART and the debug console, RFID poll, item      *)
(* resolution by FNV-1a) and the timed return from THANK_YOU.              *)
(*                                                                         *)
(* Strings are sequences of byte values.  uint32_t values (millis(), the   *)
(* stored timestamps, the hashes) are pairs <<hi, lo>> of 16-bit limbs, so *)
(* that their arithmetic is modulo 2^32 as on the target.                  *)
(***************************************************************************)
EXTENDS Integers, Sequences, FiniteSets, TLC

VARIABLES
  pc,                          \* position of the single control flow
  millis,                      \* the millisecond counter read by millis()
  advances,                    \* number of clock steps taken (bounds the run)
  appMode,                     \* dispatcher: SELECT / REGISTER / CAMERA
  activeMode,                  \* dispatcher: null / register / camera
  wasTouching,                 \* dispatcher: previous touch sample
  isCameraInitialized_,        \* CameraMode::isCameraInitialized_
  isCameraReady_,              \* CameraMode::isCameraReady_
  viewState_,                  \* CameraMode::viewState_
  cameraTouches,               \* touch presses the camera has handled (bounds the run)
  cart_,                       \* RegisterMode::cart_
  appState_,                   \* RegisterMode::appState_
  thankYouStartedAtMs_,        \* RegisterMode::thankYouStartedAtMs_
  barcodeBuffer_,              \* RegisterMode::barcodeBuffer_
  debugBuffer_,                \* RegisterMode::debugBuffer_
  barcodeLastByteAtMs_,        \* RegisterMode::barcodeLastByteAtMs_
  debugLastByteAtMs_,          \* RegisterMode::debugLastByteAtMs_
  barcodeCommandGuardUntilMs_, \* RegisterMode::barcodeCommandGuardUntilMs_
  barcodeInputReadyAtMs_,      \* RegisterMode::barcodeInputReadyAtMs_
  isRfidReady_,                \* RegisterMode::isRfidReady_
  barcodeSerial_,              \* bytes pending in the barcode UART
  Serial,                      \* bytes pending on the debug console
  accepted,                    \* history: codes accepted since the last clear or payment
  calls                        \* history: handler calls made by the last step of the control flow

vars == <<pc, millis, advances, appMode, activeMode, wasTouching, isCameraInitialized_,
          isCameraReady_, viewState_, cameraTouches, cart_, appState_,
          thankYouStartedAtMs_, barcodeBuffer_, debugBuffer_, barcodeLastByteAtMs_,
          debugLastByteAtMs_, barcodeCommandGuardUntilMs_, barcodeInputReadyAtMs_,
          isRfidReady_, barcodeSerial_, Serial, accepted, calls>>

----------------------------------------------------------------------------
(* Bounds of the model *)

\* clock steps the environment may take in one run
MaxAdvances == 2

\* accepted codes after which the environment stops sending input until a clear
MaxAccepted == 4

\* longest code handed to the resolver on its own
MaxCodeLen == 3

\* longest UID handed to the renderer on its own
MaxUidLen == 3

\* touch presses the camera handles in one run, its selection included
MaxCameraTouches == 3

\* pieces of input and clock steps between the polls of a channel in one run
MaxPollEvents == 3

\* bytes by which the longest unterminated input exceeds the frame buffer
Overrun == 2

----------------------------------------------------------------------------
(* Program constants *)

BARCODE_FRAME_GAP_MS == 300
BARCODE_COMMAND_GUARD_MS == 120
BARCODE_BOOT_STABILIZE_MS == 1500
DEBUG_FRAME_GAP_MS == 0
THANK_YOU_DURATION_MS == 3000
ITEM_VISIBLE_ROWS == 3
PRICE_MIN == 50
PRICE_STEP == 10
PRICE_LEVELS == 46
CLEAR_BUTTON_MARGIN_RIGHT == 8
CLEAR_BUTTON_MARGIN_BOTTOM == 8
CLEAR_BUTTON_W == 84
CLEAR_BUTTON_H == 34
CLEAR_BUTTON_HIT_INSET == 2
FRAME_BUFFER_MAX_LENGTH == 128
BARCODE_MIN_VALID_LENGTH == 6
MODE_BUTTON_W == 146
MODE_BUTTON_H == 164
MODE_BUTTON_GAP == 16
MODE_BUTTON_TOP == 56

\* M5.Display.width() and height() after setRotation(1)
DisplayWidth == 320
DisplayHeight == 240

\* number of scanner configuration commands sent by applyBarcodeScannerSettings
ScannerCommandCount == 3

\* delay(20) between the two profiles tried by initializeCameraModule
CameraProfileRetryMs == 20

\* tone steps <<frequencyHz, durationMs, waitMs>>, ended by a step of duration 0
SCAN_TONE_STEPS == << <<1760, 80, 0>>, <<0, 0, 0>> >>
PAYMENT_TONE_STEPS == << <<1175, 120, 150>>, <<1568, 140, 160>>, <<2093, 220, 0>>, <<0, 0, 0>> >>
STARTUP_TONE_STEPS == << <<1319, 90, 40>>, <<1760, 110, 40>>, <<2093, 150, 0>>, <<0, 0, 0>> >>

PRODUCT_NAMES ==
  << "burokkorii", "kyuuri", "tomato", "piiman",
     "ringo", "ichigo", "banana", "pain",
     "onigiri",
     "gyuunyuu", "ringojuusu", "orenjijuusu", "ocha",
     "kamukamuremon", "onigirisenbei", "tabekkodoubutsu",
     "kuurisshu", "yukimidaifuku", "koonfureeku" >>

FALLBACK_NAME == "shouhin"

----------------------------------------------------------------------------
(* uint32_t arithmetic on <<hi, lo>> limbs *)

Limb == 65536

U32(n) == <<n \div Limb, n % Limb>>

\* the value as an integer; only for values below 2^31
ToInt(a) == a[1] * Limb + a[2]

U32Add(a, b) ==
  LET lo == a[2] + b[2]
      hi == a[1] + b[1] + (lo \div Limb)
  IN  <<hi % Limb, lo % Limb>>

U32Sub(a, b) ==
  LET lo == a[2] - b[2]
      borrow == IF lo < 0 THEN 1 ELSE 0
      hi == a[1] - b[1] - borrow
  IN  <<(hi + 2 * Limb) % Limb, (lo + Limb) % Limb>>

U32Lt(a, b) == a[1] < b[1] \/ (a[1] = b[1] /\ a[2] < b[2])

U32Mod(a, n) == ((a[1] % n) * (Limb % n) + (a[2] % n)) % n

RECURSIVE XorBits(_, _, _)
XorBits(a, b, n) ==
  IF n = 0 THEN 0
  ELSE (((a % 2) + (b % 2)) % 2) + 2 * XorBits(a \div 2, b \div 2, n - 1)

\* hash ^= byte
U32XorByte(a, byte) ==
  <<a[1], (a[2] \div 256) * 256 + XorBits(a[2] % 256, byte, 8)>>

\* 2166136261 = 0x811C9DC5
FNV_OFFSET_BASIS == <<33052, 40389>>

\* 16777619 = 0x01000193
FNV_PRIME == <<256, 403>>

\* hash *= 16777619 (modulo 2^32)
U32MulPrime(a) ==
  LET low == a[2] * FNV_PRIME[2]
      high == a[1] * FNV_PRIME[2] + a[2] * FNV_PRIME[1] + (low \div Limb)
  IN  <<high % Limb, low % Limb>>

----------------------------------------------------------------------------
(* Strings *)

CH_CR == 13
CH_LF == 10
CH_SPACE == 32
CH_TILDE == 126
CH_QUOTE == 34
CH_DOLLAR == 36

\* isspace() of the C locale, as used by String::trim
IsSpace(ch) == ch \in {9, 10, 11, 12, 13, 32}

RECURSIVE TrimLeft(_)
TrimLeft(s) ==
  IF s # <<>> /\ IsSpace(Head(s)) THEN TrimLeft(Tail(s)) ELSE s

RECURSIVE TrimRight(_)
TrimRight(s) ==
  IF s # <<>> /\ IsSpace(s[Len(s)]) THEN TrimRight(SubSeq(s, 1, Len(s) - 1)) ELSE s

Trim(s) == TrimRight(TrimLeft(s))

StartsWith(s, prefix) ==
  Len(s) >= Len(prefix) /\ SubSeq(s, 1, Len(prefix)) = prefix

\* String::substring(from)
Substring(s, from) == SubSeq(s, from + 1, Len(s))

STR_3u == <<51, 117>>
STR_QUOTE == <<CH_QUOTE>>
STR_DOLLAR == <<CH_DOLLAR>>
STR_BC == <<66, 67, 58>>
STR_RFID == <<82, 70, 73, 68, 58>>
SALT_NAME == <<124, 78, 65, 77, 69, 124, 118, 49>>
SALT_PRICE == <<124, 80, 82, 73, 67, 69, 124, 118, 49>>

----------------------------------------------------------------------------
(* Code resolver *)

getProductNameCount == Len(PRODUCT_NAMES)

getProductName(index) ==
  IF getProductNameCount = 0 THEN FALLBACK_NAME
  ELSE PRODUCT_NAMES[(index % getProductNameCount) + 1]

\* FNV-1 instead of FNV-1a: the multiplication before the xor
fnv1a32Round_MultiplyFirst(hash, byte) == U32XorByte(U32MulPrime(hash), byte)

\* one round per byte: hash ^= byte, then hash *= 16777619
fnv1a32Round(hash, byte) == U32MulPrime(U32XorByte(hash, byte))

\* the rounds over input[index..]; each round is evaluated before the next starts
RECURSIVE fnv1a32From(_, _, _)
fnv1a32From(hash, input, index) ==
  IF index > Len(input) THEN hash
  ELSE LET next == fnv1a32Round(hash, input[index])
       IN  IF next[1] < Limb THEN fnv1a32From(next, input, index + 1) ELSE next

fnv1a32(input) == fnv1a32From(FNV_OFFSET_BASIS, input, 1)

\* the resolver with the price levels counted from 0 to PRICE_LEVELS inclusive
resolveItemFromCode_LevelsInclusive(code) ==
  IF getProductNameCount = 0 THEN [name |-> FALLBACK_NAME, price |-> PRICE_MIN]
  ELSE
    LET nameHash == fnv1a32(code \o SALT_NAME)
        nameIndex == U32Mod(nameHash, getProductNameCount)
        priceHash == fnv1a32(code \o SALT_PRICE)
        step == U32Mod(priceHash, PRICE_LEVELS + 1)
        price == PRICE_MIN + step * PRICE_STEP
    IN  [name |-> getProductName(nameIndex), price |-> price]

resolveItemFromCode(code) ==
  IF getProductNameCount = 0 THEN [name |-> FALLBACK_NAME, price |-> PRICE_MIN]
  ELSE
    LET nameHash == fnv1a32(code \o SALT_NAME)
        nameIndex == U32Mod(nameHash, getProductNameCount)
        priceHash == fnv1a32(code \o SALT_PRICE)
        step == U32Mod(priceHash, PRICE_LEVELS)
        price == PRICE_MIN + step * PRICE_STEP
    IN  [name |-> getProductName(nameIndex), price |-> price]

\* the sum with the loop started one item late
calculateTotalSum_SkipsFirst(cart) ==
  IF cart = <<>> THEN 0
  ELSE LET rest == Tail(cart)
       IN  IF rest = <<>> THEN 0
           ELSE rest[1].price + (IF Len(rest) > 1 THEN rest[2].price ELSE 0)
                              + (IF Len(rest) > 2 THEN rest[3].price ELSE 0)

RECURSIVE SumPrices(_)
SumPrices(items) ==
  IF items = <<>> THEN 0 ELSE Head(items).price + SumPrices(Tail(items))

calculateTotalSum(cart) == SumPrices(cart)

\* the rows drawCartItems draws, top row first: index lastIndex down to firstIndex
drawCartItems(cart) ==
  LET lastIndex == Len(cart) - 1
      firstIndex == IF lastIndex - ITEM_VISIBLE_ROWS + 1 >= 0
                    THEN lastIndex - ITEM_VISIBLE_ROWS + 1 ELSE 0
  IN  [row \in 1..(lastIndex - firstIndex + 1) |-> cart[(lastIndex - (row - 1)) + 1]]

----------------------------------------------------------------------------
(* The RegisterMode object together with the clock and the two streams it  *)
(* reads, as one record; the handlers below map such a record to the       *)
(* record after the call.                                                  *)

Self ==
  [ cart |-> cart_,
    appState |-> appState_,
    thankYouStartedAtMs |-> thankYouStartedAtMs_,
    barcodeBuffer |-> barcodeBuffer_,
    debugBuffer |-> debugBuffer_,
    barcodeLastByteAtMs |-> barcodeLastByteAtMs_,
    debugLastByteAtMs |-> debugLastByteAtMs_,
    barcodeCommandGuardUntilMs |-> barcodeCommandGuardUntilMs_,
    barcodeInputReadyAtMs |-> barcodeInputReadyAtMs_,
    isRfidReady |-> isRfidReady_,
    barcodeSerial |-> barcodeSerial_,
    Serial |-> Serial,
    millis |-> millis,
    accepted |-> accepted,
    calls |-> <<>> ]

\* what a handler call is recorded with: the application state before and after
Snapshot(rm) ==
  [ cart |-> rm.cart,
    appState |-> rm.appState,
    thankYouStartedAtMs |-> rm.thankYouStartedAtMs,
    millis |-> rm.millis ]

\* record the call op(arg), made through channel via, that led from before to after
Recorded(before, after, op, via, arg) ==
  [after EXCEPT !.calls = Append(after.calls,
     [op |-> op, via |-> via, arg |-> arg,
      pre |-> Snapshot(before), post |-> Snapshot(after)])]

\* delay(waitMs) of every step before the terminating step
RECURSIVE playToneSteps(_)
playToneSteps(steps) ==
  IF Head(steps)[2] = 0 THEN 0
  ELSE Head(steps)[3] + playToneSteps(Tail(steps))

delay(rm, ms) == [rm EXCEPT !.millis = U32Add(rm.millis, U32(ms))]

playScanTone(rm) == delay(rm, playToneSteps(SCAN_TONE_STEPS))

playPaymentTone_NoWaits(rm) == rm

playPaymentTone(rm) == delay(rm, playToneSteps(PAYMENT_TONE_STEPS))

playStartupTone(rm) == delay(rm, playToneSteps(STARTUP_TONE_STEPS))

isPointInsideRect(x, y, rect) ==
  /\ x >= rect.x /\ x < rect.x + rect.w
  /\ y >= rect.y /\ y < rect.y + rect.h

Max(a, b) == IF a >= b THEN a ELSE b

getClearButtonRect ==
  [ x |-> DisplayWidth - CLEAR_BUTTON_W - CLEAR_BUTTON_MARGIN_RIGHT,
    y |-> DisplayHeight - CLEAR_BUTTON_H - CLEAR_BUTTON_MARGIN_BOTTOM,
    w |-> CLEAR_BUTTON_W,
    h |-> CLEAR_BUTTON_H ]

getClearButtonHitRect ==
  [ x |-> getClearButtonRect.x + CLEAR_BUTTON_HIT_INSET,
    y |-> getClearButtonRect.y + CLEAR_BUTTON_HIT_INSET,
    w |-> Max(getClearButtonRect.w - CLEAR_BUTTON_HIT_INSET * 2, 1),
    h |-> Max(getClearButtonRect.h - CLEAR_BUTTON_HIT_INSET * 2, 1) ]

\* the buffer cut to its oldest FRAME_BUFFER_MAX_LENGTH bytes
trimFrameBuffer_KeepsOldest(buffer) ==
  IF Len(buffer) <= FRAME_BUFFER_MAX_LENGTH THEN buffer
  ELSE SubSeq(buffer, 1, FRAME_BUFFER_MAX_LENGTH)

trimFrameBuffer(buffer) ==
  IF Len(buffer) <= FRAME_BUFFER_MAX_LENGTH THEN buffer
  ELSE SubSeq(buffer, Len(buffer) - FRAME_BUFFER_MAX_LENGTH + 1, Len(buffer))

\* the input taken as it arrives, trim() forgotten
tryNormalizeInput_NoTrim(rawInput) ==
  [ normalizedInput |-> rawInput,
    ok |-> Len(rawInput) >= 2 ]

tryNormalizeInput(rawInput) ==
  [ normalizedInput |-> Trim(rawInput),
    ok |-> Len(Trim(rawInput)) >= 2 ]

\* the filter with no limit on the length of the frame
isBarcodeControlResponse_AnyLength(frame) ==
  \/ frame = STR_3u
  \/ StartsWith(frame, STR_QUOTE) \/ StartsWith(frame, STR_DOLLAR)

isBarcodeControlResponse(frame) ==
  \/ frame = STR_3u
  \/ /\ Len(frame) <= 4
     /\ (StartsWith(frame, STR_QUOTE) \/ StartsWith(frame, STR_DOLLAR))

\* the newest items erased instead of the oldest
trimCartForDisplay_DropsNewest(cart) ==
  IF Len(cart) > ITEM_VISIBLE_ROWS THEN SubSeq(cart, 1, ITEM_VISIBLE_ROWS) ELSE cart

RECURSIVE trimCartForDisplay(_)
trimCartForDisplay(cart) ==
  IF Len(cart) > ITEM_VISIBLE_ROWS THEN trimCartForDisplay(Tail(cart)) ELSE cart

\* cart_.clear(); the history of accepted codes restarts with the cart
clearCart(rm) == [rm EXCEPT !.cart = <<>>, !.accepted = <<>>]

\* the handler without its check of the application state
handleBarcodeCode_AnyState(rm, rawCode) ==
  IF isBarcodeControlResponse(rawCode) THEN rm
  ELSE IF ~tryNormalizeInput(rawCode).ok THEN rm
  ELSE IF Len(tryNormalizeInput(rawCode).normalizedInput) < BARCODE_MIN_VALID_LENGTH THEN rm
  ELSE
    LET code == tryNormalizeInput(rawCode).normalizedInput
        toned == playScanTone(rm)
        item == resolveItemFromCode(code)
    IN  [toned EXCEPT !.cart = trimCartForDisplay(Append(rm.cart, item)),
                      !.accepted = Append(rm.accepted, code)]

\* the handler resolving the item from the code and the row it will take
handleBarcodeCode_ItemByRow(rm, rawCode) ==
  IF rm.appState # "NORMAL" THEN rm
  ELSE IF isBarcodeControlResponse(rawCode) THEN rm
  ELSE IF ~tryNormalizeInput(rawCode).ok THEN rm
  ELSE IF Len(tryNormalizeInput(rawCode).normalizedInput) < BARCODE_MIN_VALID_LENGTH THEN rm
  ELSE
    LET code == tryNormalizeInput(rawCode).normalizedInput
        toned == playScanTone(rm)
        item == resolveItemFromCode(Append(code, 48 + Len(rm.cart)))
    IN  [toned EXCEPT !.cart = trimCartForDisplay(Append(rm.cart, item)),
                      !.accepted = Append(rm.accepted, code)]

\* the handler without the control-response filter and the minimum length
handleBarcodeCode_NoFilter(rm, rawCode) ==
  IF rm.appState # "NORMAL" THEN rm
  ELSE IF ~tryNormalizeInput(rawCode).ok THEN rm
  ELSE
    LET code == tryNormalizeInput(rawCode).normalizedInput
        toned == playScanTone(rm)
        item == resolveItemFromCode(code)
    IN  [toned EXCEPT !.cart = trimCartForDisplay(Append(rm.cart, item)),
                      !.accepted = Append(rm.accepted, code)]

\* the history gains the code where the code logs "[BC] code=" + code
handleBarcodeCode(rm, rawCode) ==
  IF rm.appState # "NORMAL" THEN rm
  ELSE IF isBarcodeControlResponse(rawCode) THEN rm
  ELSE IF ~tryNormalizeInput(rawCode).ok THEN rm
  ELSE IF Len(tryNormalizeInput(rawCode).normalizedInput) < BARCODE_MIN_VALID_LENGTH THEN rm
  ELSE
    LET code == tryNormalizeInput(rawCode).normalizedInput
        toned == playScanTone(rm)
        item == resolveItemFromCode(code)
    IN  [toned EXCEPT !.cart = trimCartForDisplay(Append(rm.cart, item)),
                      !.accepted = Append(rm.accepted, code)]

\* the entry time taken after the payment tone has played
handleRfidUid_StampAfterTone(rm, rawUid) ==
  IF rm.appState # "NORMAL" THEN rm
  ELSE IF ~tryNormalizeInput(rawUid).ok THEN rm
  ELSE
    LET toned == playPaymentTone([rm EXCEPT !.cart = <<>>,
                                            !.accepted = <<>>,
                                            !.appState = "THANK_YOU"])
    IN  [toned EXCEPT !.thankYouStartedAtMs = toned.millis]

\* the payment with the cart left as it is
handleRfidUid_KeepsCart(rm, rawUid) ==
  IF rm.appState # "NORMAL" THEN rm
  ELSE IF ~tryNormalizeInput(rawUid).ok THEN rm
  ELSE
    playPaymentTone([rm EXCEPT !.appState = "THANK_YOU",
                               !.thankYouStartedAtMs = rm.millis])

\* a card presented during THANK_YOU starts the dwell anew
handleRfidUid_RestartsDwell(rm, rawUid) ==
  IF ~tryNormalizeInput(rawUid).ok THEN rm
  ELSE
    playPaymentTone([rm EXCEPT !.cart = <<>>,
                               !.accepted = <<>>,
                               !.appState = "THANK_YOU",
                               !.thankYouStartedAtMs = rm.millis])

handleRfidUid(rm, rawUid) ==
  IF rm.appState # "NORMAL" THEN rm
  ELSE IF ~tryNormalizeInput(rawUid).ok THEN rm
  ELSE
    playPaymentTone([rm EXCEPT !.cart = <<>>,
                               !.accepted = <<>>,
                               !.appState = "THANK_YOU",
                               !.thankYouStartedAtMs = rm.millis])

\* the dwell compared with <= instead of <
updateThankYouState_Inclusive(rm) ==
  IF rm.appState # "THANK_YOU" THEN rm
  ELSE IF ~U32Lt(U32(THANK_YOU_DURATION_MS), U32Sub(rm.millis, rm.thankYouStartedAtMs)) THEN rm
  ELSE [rm EXCEPT !.appState = "NORMAL"]

\* the tick with the return to NORMAL left out
updateThankYouState_NoReturn(rm) == rm

updateThankYouState(rm) ==
  IF rm.appState # "THANK_YOU" THEN rm
  ELSE IF U32Lt(U32Sub(rm.millis, rm.thankYouStartedAtMs), U32(THANK_YOU_DURATION_MS)) THEN rm
  ELSE [rm EXCEPT !.appState = "NORMAL"]

\* the touch handler without the hit test
onTouch_AnyPoint(rm, touchX, touchY) ==
  IF rm.appState # "NORMAL" THEN rm
  ELSE clearCart(playScanTone(rm))

onTouch(rm, touchX, touchY) ==
  IF rm.appState # "NORMAL" THEN rm
  ELSE IF ~isPointInsideRect(touchX, touchY, getClearButtonHitRect) THEN rm
  ELSE clearCart(playScanTone(rm))

enter(rm) == [rm EXCEPT !.appState = "NORMAL"]

----------------------------------------------------------------------------
(* Frame reader and channel polls *)

\* the loop body with a terminator ending the call whatever the buffer holds
readByte_EmitsEmpty(loop, ch) ==
  IF loop.returned THEN loop
  ELSE IF ch = CH_CR \/ ch = CH_LF THEN
    [ buffer |-> <<>>, returned |-> TRUE, lineOut |-> loop.buffer,
      consumed |-> loop.consumed + 1 ]
  ELSE
    [loop EXCEPT !.buffer = trimFrameBuffer(IF ch >= CH_SPACE /\ ch <= CH_TILDE
                                            THEN Append(@, ch) ELSE @),
                 !.consumed = @ + 1]

\* the loop body with every byte that is not a terminator buffered
readByte_BuffersAll(loop, ch) ==
  IF loop.returned THEN loop
  ELSE IF ch = CH_CR \/ ch = CH_LF THEN
    IF loop.buffer = <<>> THEN [loop EXCEPT !.consumed = @ + 1]
    ELSE [ buffer |-> <<>>, returned |-> TRUE, lineOut |-> loop.buffer,
           consumed |-> loop.consumed + 1 ]
  ELSE
    [loop EXCEPT !.buffer = trimFrameBuffer(Append(@, ch)), !.consumed = @ + 1]

\* the loop body with every carriage return skipped and only the newline
\* ending a frame
readByte_CrDiscarded(loop, ch) ==
  IF loop.returned THEN loop
  ELSE IF ch = CH_CR THEN [loop EXCEPT !.consumed = @ + 1]
  ELSE IF ch = CH_LF THEN
    IF loop.buffer = <<>> THEN [loop EXCEPT !.consumed = @ + 1]
    ELSE [ buffer |-> <<>>, returned |-> TRUE, lineOut |-> loop.buffer,
           consumed |-> loop.consumed + 1 ]
  ELSE
    [loop EXCEPT !.buffer = trimFrameBuffer(IF ch >= CH_SPACE /\ ch <= CH_TILDE
                                            THEN Append(@, ch) ELSE @),
                 !.consumed = @ + 1]

\* one pass of the while loop of readFrame on the byte ch; loop is the state of
\* the loop: the buffer, whether the function has returned true, lineOut, and
\* the number of bytes read from the stream
readByte(loop, ch) ==
  IF loop.returned THEN loop
  ELSE IF ch = CH_CR \/ ch = CH_LF THEN
    IF loop.buffer = <<>> THEN [loop EXCEPT !.consumed = @ + 1]
    ELSE [ buffer |-> <<>>, returned |-> TRUE, lineOut |-> loop.buffer,
           consumed |-> loop.consumed + 1 ]
  ELSE
    [loop EXCEPT !.buffer = trimFrameBuffer(IF ch >= CH_SPACE /\ ch <= CH_TILDE
                                            THEN Append(@, ch) ELSE @),
                 !.consumed = @ + 1]

\* the passes of the loop on stream[from..to], in order; the range is halved
\* so that a long stream does not nest the evaluation deeply
RECURSIVE readBytes(_, _, _, _)
readBytes(loop, stream, from, to) ==
  IF from > to THEN loop
  ELSE IF from = to THEN readByte(loop, stream[from])
  ELSE LET middle == (from + to) \div 2
           firstHalf == readBytes(loop, stream, from, middle)
       IN  IF firstHalf.returned THEN firstHalf
           ELSE readBytes(firstHalf, stream, middle + 1, to)

\* readFrame with the fallback taken only once the gap is exceeded
readFrame_GapExclusive(stream, buffer, lastByteAtMs, now, frameGapMs) ==
  LET loop == readBytes([ buffer |-> buffer, returned |-> FALSE, lineOut |-> <<>>,
                          consumed |-> 0 ],
                        stream, 1, Len(stream))
      unread == SubSeq(stream, loop.consumed + 1, Len(stream))
      lastByte == IF loop.consumed > 0 THEN now ELSE lastByteAtMs
  IN  IF loop.returned THEN
        [ emitted |-> TRUE, lineOut |-> loop.lineOut, stream |-> unread,
          buffer |-> <<>>, lastByteAtMs |-> lastByte ]
      ELSE IF /\ frameGapMs > 0
              /\ loop.buffer # <<>>
              /\ U32Lt(U32(frameGapMs), U32Sub(now, lastByte)) THEN
        [ emitted |-> TRUE, lineOut |-> loop.buffer, stream |-> unread,
          buffer |-> <<>>, lastByteAtMs |-> lastByte ]
      ELSE
        [ emitted |-> FALSE, lineOut |-> <<>>, stream |-> unread,
          buffer |-> loop.buffer, lastByteAtMs |-> lastByte ]

\* readFrame with the fallback taken whatever the configured gap
readFrame_GapAlways(stream, buffer, lastByteAtMs, now, frameGapMs) ==
  LET loop == readBytes([ buffer |-> buffer, returned |-> FALSE, lineOut |-> <<>>,
                          consumed |-> 0 ],
                        stream, 1, Len(stream))
      unread == SubSeq(stream, loop.consumed + 1, Len(stream))
      lastByte == IF loop.consumed > 0 THEN now ELSE lastByteAtMs
  IN  IF loop.returned THEN
        [ emitted |-> TRUE, lineOut |-> loop.lineOut, stream |-> unread,
          buffer |-> <<>>, lastByteAtMs |-> lastByte ]
      ELSE IF /\ frameGapMs >= 0
              /\ loop.buffer # <<>>
              /\ ~U32Lt(U32Sub(now, lastByte), U32(frameGapMs)) THEN
        [ emitted |-> TRUE, lineOut |-> loop.buffer, stream |-> unread,
          buffer |-> <<>>, lastByteAtMs |-> lastByte ]
      ELSE
        [ emitted |-> FALSE, lineOut |-> <<>>, stream |-> unread,
          buffer |-> loop.buffer, lastByteAtMs |-> lastByte ]

\* readFrame with the bytes behind the frame's terminator taken off the stream too
readFrame_ConsumesAll(stream, buffer, lastByteAtMs, now, frameGapMs) ==
  LET loop == readBytes([ buffer |-> buffer, returned |-> FALSE, lineOut |-> <<>>,
                          consumed |-> 0 ],
                        stream, 1, Len(stream))
      unread == <<>>
      lastByte == IF loop.consumed > 0 THEN now ELSE lastByteAtMs
  IN  IF loop.returned THEN
        [ emitted |-> TRUE, lineOut |-> loop.lineOut, stream |-> unread,
          buffer |-> <<>>, lastByteAtMs |-> lastByte ]
      ELSE IF /\ frameGapMs > 0
              /\ loop.buffer # <<>>
              /\ ~U32Lt(U32Sub(now, lastByte), U32(frameGapMs)) THEN
        [ emitted |-> TRUE, lineOut |-> loop.buffer, stream |-> unread,
          buffer |-> <<>>, lastByteAtMs |-> lastByte ]
      ELSE
        [ emitted |-> FALSE, lineOut |-> <<>>, stream |-> unread,
          buffer |-> loop.buffer, lastByteAtMs |-> lastByte ]

\* readFrame with a buffer of its own, empty at every call
readFrame_LocalBuffer(stream, buffer, lastByteAtMs, now, frameGapMs) ==
  LET loop == readBytes([ buffer |-> <<>>, returned |-> FALSE, lineOut |-> <<>>,
                          consumed |-> 0 ],
                        stream, 1, Len(stream))
      unread == SubSeq(stream, loop.consumed + 1, Len(stream))
      lastByte == IF loop.consumed > 0 THEN now ELSE lastByteAtMs
  IN  IF loop.returned THEN
        [ emitted |-> TRUE, lineOut |-> loop.lineOut, stream |-> unread,
          buffer |-> <<>>, lastByteAtMs |-> lastByte ]
      ELSE IF /\ frameGapMs > 0
              /\ loop.buffer # <<>>
              /\ ~U32Lt(U32Sub(now, lastByte), U32(frameGapMs)) THEN
        [ emitted |-> TRUE, lineOut |-> loop.buffer, stream |-> unread,
          buffer |-> <<>>, lastByteAtMs |-> lastByte ]
      ELSE
        [ emitted |-> FALSE, lineOut |-> <<>>, stream |-> unread,
          buffer |-> loop.buffer, lastByteAtMs |-> lastByte ]

\* the result of one readFrame call: the return value, lineOut, and the
\* stream, buffer and lastByteAtMs it leaves
readFrame(stream, buffer, lastByteAtMs, now, frameGapMs) ==
  LET loop == readBytes([ buffer |-> buffer, returned |-> FALSE, lineOut |-> <<>>,
                          consumed |-> 0 ],
                        stream, 1, Len(stream))
      unread == SubSeq(stream, loop.consumed + 1, Len(stream))
      lastByte == IF loop.consumed > 0 THEN now ELSE lastByteAtMs
  IN  IF loop.returned THEN
        [ emitted |-> TRUE, lineOut |-> loop.lineOut, stream |-> unread,
          buffer |-> <<>>, lastByteAtMs |-> lastByte ]
      ELSE IF /\ frameGapMs > 0
              /\ loop.buffer # <<>>
              /\ ~U32Lt(U32Sub(now, lastByte), U32(frameGapMs)) THEN
        [ emitted |-> TRUE, lineOut |-> loop.buffer, stream |-> unread,
          buffer |-> <<>>, lastByteAtMs |-> lastByte ]
      ELSE
        [ emitted |-> FALSE, lineOut |-> <<>>, stream |-> unread,
          buffer |-> loop.buffer, lastByteAtMs |-> lastByte ]

clearBarcodeSerialInput(rm) ==
  [rm EXCEPT !.barcodeSerial = <<>>,
             !.barcodeBuffer = <<>>,
             !.barcodeLastByteAtMs = U32(0)]

sendBarcodeCommand(rm) ==
  LET waited == delay(clearBarcodeSerialInput(rm), BARCODE_COMMAND_GUARD_MS)
      cleared == clearBarcodeSerialInput(waited)
  IN  [cleared EXCEPT !.barcodeCommandGuardUntilMs =
                         U32Add(cleared.millis, U32(BARCODE_COMMAND_GUARD_MS))]

RECURSIVE sendBarcodeCommands(_, _)
sendBarcodeCommands(rm, count) ==
  IF count = 0 THEN rm ELSE sendBarcodeCommands(sendBarcodeCommand(rm), count - 1)

applyBarcodeScannerSettings(rm) == sendBarcodeCommands(rm, ScannerCommandCount)

\* rfidOk: the result of checkRfidI2cStatus()
initialize(rm, rfidOk) ==
  LET configured == applyBarcodeScannerSettings(rm)
      ready == [configured EXCEPT !.barcodeInputReadyAtMs =
                  U32Add(configured.millis, U32(BARCODE_BOOT_STABILIZE_MS))]
  IN  [clearBarcodeSerialInput(ready) EXCEPT !.isRfidReady = rfidOk]

\* the poll with an if in the place of the while: one readFrame call
pollBarcodeFrames_OneFrame(rm) ==
  LET frame == readFrame(rm.barcodeSerial, rm.barcodeBuffer, rm.barcodeLastByteAtMs,
                         rm.millis, BARCODE_FRAME_GAP_MS)
      read == [rm EXCEPT !.barcodeSerial = frame.stream,
                         !.barcodeBuffer = frame.buffer,
                         !.barcodeLastByteAtMs = frame.lastByteAtMs]
  IN  IF frame.emitted
      THEN Recorded(read, handleBarcodeCode(read, frame.lineOut),
                    "handleBarcodeCode", "barcodeSerial", frame.lineOut)
      ELSE read

RECURSIVE pollBarcodeFrames(_)
pollBarcodeFrames(rm) ==
  LET frame == readFrame(rm.barcodeSerial, rm.barcodeBuffer, rm.barcodeLastByteAtMs,
                         rm.millis, BARCODE_FRAME_GAP_MS)
      read == [rm EXCEPT !.barcodeSerial = frame.stream,
                         !.barcodeBuffer = frame.buffer,
                         !.barcodeLastByteAtMs = frame.lastByteAtMs]
  IN  IF frame.emitted
      THEN pollBarcodeFrames(Recorded(read, handleBarcodeCode(read, frame.lineOut),
                                      "handleBarcodeCode", "barcodeSerial", frame.lineOut))
      ELSE read

pollBarcodeSerial(rm) ==
  IF U32Lt(rm.millis, rm.barcodeInputReadyAtMs) THEN clearBarcodeSerialInput(rm)
  ELSE IF U32Lt(rm.millis, rm.barcodeCommandGuardUntilMs) THEN clearBarcodeSerialInput(rm)
  ELSE pollBarcodeFrames(rm)

HexDigit(n) == IF n < 10 THEN 48 + n ELSE 97 + (n - 10)

\* String(value, HEX): lower-case digits, no leading zero
StringHex(value) ==
  IF value < 16 THEN <<HexDigit(value)>>
  ELSE <<HexDigit(value \div 16), HexDigit(value % 16)>>

toUpperCase(s) == [i \in 1..Len(s) |-> IF s[i] >= 97 /\ s[i] <= 122 THEN s[i] - 32 ELSE s[i]]

RECURSIVE UidHexLower(_)
UidHexLower(uidBytes) ==
  IF uidBytes = <<>> THEN <<>>
  ELSE (IF Head(uidBytes) < 16 THEN <<48>> ELSE <<>>)
         \o StringHex(Head(uidBytes)) \o UidHexLower(Tail(uidBytes))

\* the UID as String(value, HEX) renders it, toUpperCase() forgotten
getRfidUidHex_LowerCase(uidBytes) == UidHexLower(uidBytes)

getRfidUidHex(uidBytes) == toUpperCase(UidHexLower(uidBytes))

\* an operation issued to the MFRC522 reader and what it returned, logged with
\* the calls
ReaderOp(rm, op, result) ==
  [rm EXCEPT !.calls = Append(@, [op |-> op, via |-> "rfidReader", arg |-> <<>>,
                                  pre |-> Snapshot(rm), post |-> Snapshot(rm),
                                  result |-> result])]

\* the poll with the readiness flag not looked at
pollRfidCard_IgnoresReady(rm, present, readOk, uidBytes) ==
  LET detect == ReaderOp(rm, "PICC_IsNewCardPresent", present) IN
  IF ~present THEN detect
  ELSE
    LET read == ReaderOp(detect, "PICC_ReadCardSerial", readOk) IN
    IF ~readOk THEN read
    ELSE
      LET handled == Recorded(read, handleRfidUid(read, getRfidUidHex(uidBytes)),
                              "handleRfidUid", "rfidReader", getRfidUidHex(uidBytes))
      IN  ReaderOp(ReaderOp(handled, "PICC_HaltA", TRUE), "PCD_StopCrypto1", TRUE)

\* the poll with the card released only when its UID led to a payment
pollRfidCard_HaltOnPayment(rm, present, readOk, uidBytes) ==
  IF ~rm.isRfidReady THEN rm
  ELSE
    LET detect == ReaderOp(rm, "PICC_IsNewCardPresent", present) IN
    IF ~present THEN detect
    ELSE
      LET read == ReaderOp(detect, "PICC_ReadCardSerial", readOk) IN
      IF ~readOk THEN read
      ELSE
        LET handled == Recorded(read, handleRfidUid(read, getRfidUidHex(uidBytes)),
                                "handleRfidUid", "rfidReader", getRfidUidHex(uidBytes))
        IN  IF handled.appState = read.appState THEN handled
            ELSE ReaderOp(ReaderOp(handled, "PICC_HaltA", TRUE), "PCD_StopCrypto1", TRUE)

\* present, readOk: the results of PICC_IsNewCardPresent() and PICC_ReadCardSerial()
pollRfidCard(rm, present, readOk, uidBytes) ==
  IF ~rm.isRfidReady THEN rm
  ELSE
    LET detect == ReaderOp(rm, "PICC_IsNewCardPresent", present) IN
    IF ~present THEN detect
    ELSE
      LET read == ReaderOp(detect, "PICC_ReadCardSerial", readOk) IN
      IF ~readOk THEN read
      ELSE
        LET handled == Recorded(read, handleRfidUid(read, getRfidUidHex(uidBytes)),
                                "handleRfidUid", "rfidReader", getRfidUidHex(uidBytes))
        IN  ReaderOp(ReaderOp(handled, "PICC_HaltA", TRUE), "PCD_StopCrypto1", TRUE)

\* the line looked at as it arrives, trim() forgotten
handleDebugLine_NoTrim(rm, rawLine) ==
  IF StartsWith(rawLine, STR_BC)
  THEN Recorded(rm, handleBarcodeCode(rm, Substring(rawLine, 3)),
                "handleBarcodeCode", "Serial", Substring(rawLine, 3))
  ELSE IF StartsWith(rawLine, STR_RFID)
  THEN Recorded(rm, handleRfidUid(rm, Substring(rawLine, 5)),
                "handleRfidUid", "Serial", Substring(rawLine, 5))
  ELSE rm

handleDebugLine(rm, rawLine) ==
  LET line == Trim(rawLine) IN
  IF StartsWith(line, STR_BC)
  THEN Recorded(rm, handleBarcodeCode(rm, Substring(line, 3)),
                "handleBarcodeCode", "Serial", Substring(line, 3))
  ELSE IF StartsWith(line, STR_RFID)
  THEN Recorded(rm, handleRfidUid(rm, Substring(line, 5)),
                "handleRfidUid", "Serial", Substring(line, 5))
  ELSE rm

RECURSIVE pollDebugSerial(_)
pollDebugSerial(rm) ==
  LET frame == readFrame(rm.Serial, rm.debugBuffer, rm.debugLastByteAtMs,
                         rm.millis, DEBUG_FRAME_GAP_MS)
      read == [rm EXCEPT !.Serial = frame.stream,
                         !.debugBuffer = frame.buffer,
                         !.debugLastByteAtMs = frame.lastByteAtMs]
  IN  IF frame.emitted
      THEN pollDebugSerial(Recorded(read, handleDebugLine(read, frame.lineOut),
                                    "handleDebugLine", "Serial", frame.lineOut))
      ELSE read

----------------------------------------------------------------------------
(* Camera mode *)

cameraVars == <<isCameraInitialized_, isCameraReady_, viewState_, cameraTouches>>

\* CameraMode::CameraMode()
CameraAtRest ==
  /\ isCameraInitialized_ = FALSE
  /\ isCameraReady_ = FALSE
  /\ viewState_ = "LIVE"
  /\ cameraTouches = 0

\* the CameraMode object with the clock and the calls it makes
CameraSelf ==
  [ isCameraInitialized |-> isCameraInitialized_,
    isCameraReady |-> isCameraReady_,
    viewState |-> viewState_,
    millis |-> millis,
    calls |-> <<>> ]

\* a call made by or on the camera mode, logged with what it returned
CameraCall(cm, op, via, arg, result) ==
  [cm EXCEPT !.calls = Append(@, [op |-> op, via |-> via, arg |-> arg, result |-> result])]

\* normalOk, compactOk: esp_camera_init() returned ESP_OK for the profile.
\* The function returns the value it leaves in isCameraReady.
initializeCameraModule(cm, normalOk, compactOk) ==
  IF cm.isCameraReady THEN cm
  ELSE
    LET deinit == [cm EXCEPT !.isCameraInitialized = FALSE]
        normal == CameraCall(deinit, "esp_camera_init", "initializeCameraModule",
                             "normal", normalOk)
    IN  IF normalOk
        THEN [normal EXCEPT !.isCameraInitialized = TRUE, !.isCameraReady = TRUE]
        ELSE
          LET waited == [normal EXCEPT !.millis = U32Add(@, U32(CameraProfileRetryMs))]
              compact == CameraCall(waited, "esp_camera_init", "initializeCameraModule",
                                    "compact", compactOk)
          IN  IF ~compactOk
              THEN [compact EXCEPT !.isCameraInitialized = FALSE, !.isCameraReady = FALSE]
              ELSE [compact EXCEPT !.isCameraInitialized = TRUE, !.isCameraReady = TRUE]

\* captureOk: captureCameraFrame() got a frame
updateCameraLiveScreen(cm, captureOk) ==
  IF ~cm.isCameraReady THEN cm
  ELSE IF ~captureOk THEN [cm EXCEPT !.isCameraReady = FALSE]
  ELSE cm

\* CameraMode::enter()
cameraEnter(cm, normalOk, compactOk, captureOk) ==
  LET initialized == initializeCameraModule([cm EXCEPT !.viewState = "LIVE"],
                                            normalOk, compactOk)
  IN  IF ~initialized.isCameraReady THEN initialized
      ELSE updateCameraLiveScreen(initialized, captureOk)

cameraOnTouch_NoRetry(cm, normalOk, compactOk, captureOk, shutterWaitMs) ==
  IF ~cm.isCameraReady THEN cm
  ELSE IF cm.viewState = "LIVE"
  THEN [cm EXCEPT !.millis = U32Add(@, U32(shutterWaitMs)), !.viewState = "STILL"]
  ELSE updateCameraLiveScreen([cm EXCEPT !.viewState = "LIVE"], captureOk)

\* CameraMode::onTouch(); shutterWaitMs: the waits of SHUTTER_TONE_STEPS
cameraOnTouch(cm, normalOk, compactOk, captureOk, shutterWaitMs) ==
  IF ~cm.isCameraReady
  THEN cameraEnter(CameraCall(cm, "CameraMode::enter", "CameraMode::onTouch", <<>>, TRUE),
                   normalOk, compactOk, captureOk)
  ELSE IF cm.viewState = "LIVE"
  THEN [cm EXCEPT !.millis = U32Add(@, U32(shutterWaitMs)), !.viewState = "STILL"]
  ELSE updateCameraLiveScreen([cm EXCEPT !.viewState = "LIVE"], captureOk)

\* CameraMode::update()
cameraUpdate(cm, captureOk) ==
  IF cm.viewState # "LIVE" THEN cm
  ELSE updateCameraLiveScreen(cm, captureOk)

----------------------------------------------------------------------------
(* Inputs the environment draws from *)

\* "4912345678904" and "ABC123"
CODE_A == <<52, 57, 49, 50, 51, 52, 53, 54, 55, 56, 57, 48, 52>>
CODE_B == <<65, 66, 67, 49, 50, 51>>

\* "$AB", "  123 " (six bytes, three after trimming), "04A1", "7", "XY"
STR_DOLLAR_AB == <<36, 65, 66>>
STR_PADDED_123 == <<32, 32, 49, 50, 51, 32>>
STR_UID_04A1 == <<48, 52, 65, 49>>
STR_UID_7 == <<55>>
STR_XY == <<88, 89>>

\* byte strings arriving on the barcode UART: a code ended by a newline, a
\* code with no terminator, control responses, a too-short padded code
BarcodeChunks ==
  { CODE_A \o <<CH_LF>>,
    CODE_B,
    STR_3u \o <<CH_LF>>,
    STR_DOLLAR_AB \o <<CH_LF>>,
    STR_PADDED_123 \o <<CH_LF>> }

\* lines typed on the debug console
DebugChunks ==
  { STR_BC \o CODE_B \o <<CH_LF>>,
    STR_BC \o STR_DOLLAR_AB \o <<CH_LF>>,
    STR_RFID \o STR_UID_04A1 \o <<CH_LF>>,
    STR_RFID \o STR_UID_7 \o <<CH_LF>>,
    STR_XY \o <<CH_LF>> }

\* card serials read by the RFID reader
CardUids == { <<4, 161, 178, 195>> }

\* touch samples: on the register button, on the camera button and the CLEAR
\* hit rectangle, on the CLEAR hit rectangle only, just left of it, nowhere
TouchPoints == { <<50, 100>>, <<240, 210>>, <<240, 225>>, <<229, 225>>, <<0, 0>> }

\* milliseconds by which the clock advances between two steps
ClockSteps == { 1, 2689 }

\* SHUTTER_TONE_STEPS is defined outside the sources at hand: the sum of its
\* waits is one of these
ShutterToneWaits == { 0, 60 }

----------------------------------------------------------------------------
(* Dispatcher *)

getRegisterModeButtonRect ==
  [ x |-> (DisplayWidth - (MODE_BUTTON_W * 2 + MODE_BUTTON_GAP)) \div 2,
    y |-> MODE_BUTTON_TOP,
    w |-> MODE_BUTTON_W,
    h |-> MODE_BUTTON_H ]

getCameraModeButtonRect ==
  [ x |-> getRegisterModeButtonRect.x + getRegisterModeButtonRect.w + MODE_BUTTON_GAP,
    y |-> getRegisterModeButtonRect.y,
    w |-> getRegisterModeButtonRect.w,
    h |-> getRegisterModeButtonRect.h ]

\* the variables of the RegisterMode object, the clock and the streams take
\* the values of the record
Commit(rm) ==
  /\ cart_' = rm.cart
  /\ appState_' = rm.appState
  /\ thankYouStartedAtMs_' = rm.thankYouStartedAtMs
  /\ barcodeBuffer_' = rm.barcodeBuffer
  /\ debugBuffer_' = rm.debugBuffer
  /\ barcodeLastByteAtMs_' = rm.barcodeLastByteAtMs
  /\ debugLastByteAtMs_' = rm.debugLastByteAtMs
  /\ barcodeCommandGuardUntilMs_' = rm.barcodeCommandGuardUntilMs
  /\ barcodeInputReadyAtMs_' = rm.barcodeInputReadyAtMs
  /\ isRfidReady_' = rm.isRfidReady
  /\ barcodeSerial_' = rm.barcodeSerial
  /\ Serial' = rm.Serial
  /\ millis' = rm.millis
  /\ accepted' = rm.accepted
  /\ calls' = rm.calls

dispatcherVars == <<appMode, activeMode, wasTouching, cameraVars>>

\* the variables of the CameraMode object, the clock and the call log take the
\* values of the record; the register is left alone
CameraCommit(cm) ==
  /\ isCameraInitialized_' = cm.isCameraInitialized
  /\ isCameraReady_' = cm.isCameraReady
  /\ viewState_' = cm.viewState
  /\ Commit([Self EXCEPT !.millis = cm.millis, !.calls = cm.calls])

\* the state after construction of the globals, before setup() runs
Init ==
  /\ pc = "setup"
  /\ millis = U32(0)
  /\ advances = 0
  /\ appMode = "SELECT"
  /\ activeMode = "null"
  /\ wasTouching = FALSE
  /\ CameraAtRest
  /\ cart_ = <<>>
  /\ appState_ = "NORMAL"
  /\ thankYouStartedAtMs_ = U32(0)
  /\ barcodeBuffer_ = <<>>
  /\ debugBuffer_ = <<>>
  /\ barcodeLastByteAtMs_ = U32(0)
  /\ debugLastByteAtMs_ = U32(0)
  /\ barcodeCommandGuardUntilMs_ = U32(0)
  /\ barcodeInputReadyAtMs_ = U32(0)
  /\ isRfidReady_ = FALSE
  /\ barcodeSerial_ = <<>>
  /\ Serial = <<>>
  /\ accepted = <<>>
  /\ calls = <<>>

\* setup(): registerMode.initialize(pins), then the mode selection screen
Setup ==
  /\ pc = "setup"
  /\ \E rfidOk \in BOOLEAN : Commit(initialize(Self, rfidOk))
  /\ pc' = "pollTouchInput"
  /\ UNCHANGED <<advances, dispatcherVars>>

AfterTouch_UpdatesRegister(mode) == "pollDebugSerial"

\* where loop() continues after pollTouchInput, given the active mode
AfterTouch(mode) ==
  CASE mode = "null" -> "pollTouchInput"
    [] mode = "register" -> "pollDebugSerial"
    [] mode = "camera" -> "cameraUpdate"

touchSampleSkipped_LevelTriggered(isTouching, previous) == ~isTouching

\* the early return of pollTouchInput(): the sample is no new press
touchSampleSkipped(isTouching, previous) == ~isTouching \/ previous

touchSampleStored_ResetByHandler(isTouching) == FALSE

\* wasTouching = isTouching, on both ways out of pollTouchInput()
touchSampleStored(isTouching) == isTouching

\* pollTouchInput() with the sample (isTouching, touchX, touchY); a press is
\* logged with the handler it is given to
PollTouchInput ==
  /\ pc = "pollTouchInput"
  /\ \E isTouching \in BOOLEAN, point \in TouchPoints :
       LET touchX == point[1]
           touchY == point[2]
           selecting == Recorded(Self, Self, "handleModeSelectionTouch", "touch", point)
       IN
       /\ wasTouching' = touchSampleStored(isTouching)
       /\ IF touchSampleSkipped(isTouching, wasTouching) THEN
            /\ Commit(Self)
            /\ UNCHANGED <<appMode, activeMode, cameraVars>>
          ELSE IF appMode = "SELECT" THEN
            IF isPointInsideRect(touchX, touchY, getRegisterModeButtonRect) THEN
              /\ appMode' = "REGISTER"
              /\ activeMode' = "register"
              /\ \E toned \in { playStartupTone(selecting) } :
                   Commit(Recorded(toned, enter(toned), "RegisterMode::enter",
                                   "switchToRegisterMode", <<>>))
              /\ UNCHANGED cameraVars
            ELSE IF isPointInsideRect(touchX, touchY, getCameraModeButtonRect) THEN
              /\ appMode' = "CAMERA"
              /\ activeMode' = "camera"
              /\ cameraTouches' = cameraTouches + 1
              /\ \E normalOk \in BOOLEAN, compactOk \in BOOLEAN, captureOk \in BOOLEAN :
                   \E toned \in { playStartupTone(selecting) } :
                     CameraCommit(cameraEnter(
                       CameraCall([CameraSelf EXCEPT !.millis = toned.millis,
                                                     !.calls = toned.calls],
                                  "CameraMode::enter", "switchToCameraMode", <<>>, TRUE),
                       normalOk, compactOk, captureOk))
            ELSE
              /\ Commit(selecting)
              /\ UNCHANGED <<appMode, activeMode, cameraVars>>
          ELSE IF activeMode = "register" THEN
            /\ Commit(Recorded(Self, onTouch(Self, touchX, touchY), "onTouch", "touch", point))
            /\ UNCHANGED <<appMode, activeMode, cameraVars>>
          ELSE
            /\ cameraTouches < MaxCameraTouches
            /\ cameraTouches' = cameraTouches + 1
            /\ \E normalOk \in BOOLEAN, compactOk \in BOOLEAN, captureOk \in BOOLEAN,
                  shutterWaitMs \in ShutterToneWaits :
                 CameraCommit(cameraOnTouch(
                   CameraCall(CameraSelf, "CameraMode::onTouch", "touch", point, TRUE),
                   normalOk, compactOk, captureOk, shutterWaitMs))
            /\ UNCHANGED <<appMode, activeMode>>
  /\ pc' = AfterTouch(activeMode')
  /\ UNCHANGED advances

\* RegisterMode::update(), first step
PollDebugSerial ==
  /\ pc = "pollDebugSerial"
  /\ Commit(pollDebugSerial(Self))
  /\ pc' = "pollBarcodeSerial"
  /\ UNCHANGED <<advances, dispatcherVars>>

PollBarcodeSerial_SkipsRfidPoll ==
  /\ pc = "pollBarcodeSerial"
  /\ Commit(pollBarcodeSerial(Self))
  /\ pc' = "updateThankYouState"
  /\ UNCHANGED <<advances, dispatcherVars>>

PollBarcodeSerial ==
  /\ pc = "pollBarcodeSerial"
  /\ Commit(pollBarcodeSerial(Self))
  /\ pc' = "pollRfidCard"
  /\ UNCHANGED <<advances, dispatcherVars>>

PollRfidCard ==
  /\ pc = "pollRfidCard"
  /\ \E present \in BOOLEAN, readOk \in BOOLEAN, uidBytes \in CardUids :
       Commit(pollRfidCard(Self, present, readOk, uidBytes))
  /\ pc' = "updateThankYouState"
  /\ UNCHANGED <<advances, dispatcherVars>>

UpdateThankYouState ==
  /\ pc = "updateThankYouState"
  /\ Commit(Recorded(Self, updateThankYouState(Self), "updateThankYouState", "loop", <<>>))
  /\ pc' = "pollTouchInput"
  /\ UNCHANGED <<advances, dispatcherVars>>

\* the barcode poll made in camera mode too
CameraUpdate_PollsBarcode ==
  /\ pc = "cameraUpdate"
  /\ Commit(pollBarcodeSerial(Self))
  /\ pc' = "pollTouchInput"
  /\ UNCHANGED <<advances, dispatcherVars>>

\* CameraMode::update(): touches nothing of the register
CameraUpdate ==
  /\ pc = "cameraUpdate"
  /\ \E captureOk \in BOOLEAN : CameraCommit(cameraUpdate(CameraSelf, captureOk))
  /\ pc' = "pollTouchInput"
  /\ UNCHANGED <<advances, appMode, activeMode, wasTouching, cameraTouches>>

----------------------------------------------------------------------------
(* Environment: sampled between two iterations of loop() *)

\* time passes
AdvanceClock ==
  /\ pc = "pollTouchInput"
  /\ advances < MaxAdvances
  /\ \E ms \in ClockSteps : Commit([delay(Self, ms) EXCEPT !.calls = calls])
  /\ advances' = advances + 1
  /\ UNCHANGED <<pc, dispatcherVars>>

\* bytes arrive on the barcode UART: the scanner sends one burst at a time,
\* and none while an unterminated burst is still buffered
BarcodeSerialReceive ==
  /\ pc = "pollTouchInput"
  /\ barcodeSerial_ = <<>>
  /\ Serial = <<>>
  /\ barcodeBuffer_ = <<>>
  /\ Len(accepted) < MaxAccepted
  /\ \E chunk \in BarcodeChunks : Commit([Self EXCEPT !.barcodeSerial = chunk, !.calls = calls])
  /\ UNCHANGED <<pc, advances, dispatcherVars>>

\* a line arrives on the debug console
SerialReceive ==
  /\ pc = "pollTouchInput"
  /\ barcodeSerial_ = <<>>
  /\ Serial = <<>>
  /\ Len(accepted) < MaxAccepted
  /\ \E chunk \in DebugChunks : Commit([Self EXCEPT !.Serial = chunk, !.calls = calls])
  /\ UNCHANGED <<pc, advances, dispatcherVars>>

Next ==
  \/ Setup
  \/ PollTouchInput
  \/ PollDebugSerial
  \/ PollBarcodeSerial
  \/ PollRfidCard
  \/ UpdateThankYouState
  \/ CameraUpdate
  \/ AdvanceClock
  \/ BarcodeSerialReceive
  \/ SerialReceive

Spec == Init /\ [][Next]_vars

\* the positions of the loop
LoopPositions ==
  { "setup", "pollTouchInput", "pollDebugSerial", "pollBarcodeSerial", "pollRfidCard",
    "updateThankYouState", "cameraUpdate" }

\* the program moves on: setup() returns and loop() is called again and again,
\* and no step of it waits for input
LoopStep == pc' \in LoopPositions /\ pc' # pc

\* the loop keeps iterating and time keeps passing; the clock is read between
\* two iterations only, so its fairness is strong
LiveSpec == Spec /\ WF_pc(LoopStep) /\ SF_vars(AdvanceClock)

----------------------------------------------------------------------------
(* The code resolver on its own: resolveItemFromCode applied to the codes    *)
(* over a small alphabet, as handleBarcodeCode applies it to a code.         *)

\* "0", "9", "A", "z", "-"
ResolverAlphabet == {48, 57, 65, 122, 45}

RECURSIVE CodesOfLen(_)
CodesOfLen(n) ==
  IF n = 0 THEN { <<>> }
  ELSE { Append(code, byte) : code \in CodesOfLen(n - 1), byte \in ResolverAlphabet }

ResolverCodes ==
  UNION { CodesOfLen(n) : n \in 0..MaxCodeLen } \cup { CODE_A, CODE_B }

ResolveInit ==
  /\ pc = "resolveItemFromCode"
  /\ millis = U32(0)
  /\ advances = 0
  /\ appMode = "SELECT"
  /\ activeMode = "null"
  /\ wasTouching = FALSE
  /\ CameraAtRest
  /\ cart_ = <<>>
  /\ appState_ = "NORMAL"
  /\ thankYouStartedAtMs_ = U32(0)
  /\ barcodeBuffer_ = <<>>
  /\ debugBuffer_ = <<>>
  /\ barcodeLastByteAtMs_ = U32(0)
  /\ debugLastByteAtMs_ = U32(0)
  /\ barcodeCommandGuardUntilMs_ = U32(0)
  /\ barcodeInputReadyAtMs_ = U32(0)
  /\ isRfidReady_ = FALSE
  /\ barcodeSerial_ = <<>>
  /\ Serial = <<>>
  /\ accepted = <<>>
  /\ calls = <<>>

\* const Item item = resolveItemFromCode(code)
ResolveItemFromCode ==
  /\ pc = "resolveItemFromCode"
  /\ \E code \in ResolverCodes :
       calls' = << [ op |-> "resolveItemFromCode", via |-> "handleBarcodeCode",
                     arg |-> code, result |-> resolveItemFromCode(code) ] >>
  /\ pc' = "resolved"
  /\ UNCHANGED <<millis, advances, appMode, activeMode, wasTouching, cameraVars, cart_,
                 appState_, thankYouStartedAtMs_, barcodeBuffer_, debugBuffer_,
                 barcodeLastByteAtMs_, debugLastByteAtMs_, barcodeCommandGuardUntilMs_,
                 barcodeInputReadyAtMs_, isRfidReady_, barcodeSerial_, Serial, accepted>>

ResolveNext == ResolveItemFromCode

ResolveSpec == ResolveInit /\ [][ResolveNext]_vars

----------------------------------------------------------------------------
(* The frame reader on its own: readFrame applied to the barcode UART with   *)
(* barcodeBuffer_ and to the debug console with debugBuffer_, as the two     *)
(* polls apply it, on byte streams with carriage returns, bytes that are not *)
(* printable, and more bytes than the buffer holds.                          *)

\* n digits, "0123456789" repeated
Run(n) == [i \in 1..n |-> 48 + ((i - 1) % 10)]

\* "AB" CR "CD" LF; "ABC"; LF "AB" LF LF "C" CR LF; "A" BEL "B" 0x80 DEL " ~" LF;
\* a run longer than the buffer, with and without LF; nothing
FrameStreams ==
  { <<65, 66, CH_CR, 67, 68, CH_LF>>,
    <<65, 66, 67>>,
    <<CH_LF, 65, 66, CH_LF, CH_LF, 67, CH_CR, CH_LF>>,
    <<65, 7, 66, 128, 127, CH_SPACE, CH_TILDE, CH_LF>>,
    Run(FRAME_BUFFER_MAX_LENGTH + Overrun) \o <<CH_LF>>,
    Run(FRAME_BUFFER_MAX_LENGTH + Overrun),
    <<>> }

\* what barcodeBuffer_ holds from earlier calls: nothing, "Z", a full buffer
FrameBuffers == { <<>>, <<90>>, Run(FRAME_BUFFER_MAX_LENGTH) }

\* nothing; "ab" LF "c"; "a" CR
DebugStreams == { <<>>, <<97, 98, CH_LF, 99>>, <<97, CH_CR>> }

\* what debugBuffer_ holds from earlier calls: nothing, "z"
DebugBuffers == { <<>>, <<122>> }

\* millis() at the start: 2000, and 200 ms before the counter wraps
FrameClocks == { U32(2000), <<65535, 65336>> }

\* milliseconds by which the clock advances between two calls
FrameClockSteps == { 1, 299 }

FrameInit ==
  /\ pc = "readFrame"
  /\ millis \in FrameClocks
  /\ advances = 0
  /\ appMode = "REGISTER"
  /\ activeMode = "register"
  /\ wasTouching = FALSE
  /\ CameraAtRest
  /\ cart_ = <<>>
  /\ appState_ = "NORMAL"
  /\ thankYouStartedAtMs_ = U32(0)
  /\ barcodeBuffer_ \in FrameBuffers
  /\ debugBuffer_ \in DebugBuffers
  /\ barcodeLastByteAtMs_ = millis
  /\ debugLastByteAtMs_ = millis
  /\ barcodeCommandGuardUntilMs_ = U32(0)
  /\ barcodeInputReadyAtMs_ = U32(0)
  /\ isRfidReady_ = FALSE
  /\ barcodeSerial_ \in FrameStreams
  /\ Serial \in DebugStreams
  /\ accepted = <<>>
  /\ calls = <<>>

frameReaderFixed ==
  <<pc, appMode, activeMode, wasTouching, cameraVars, cart_, appState_, thankYouStartedAtMs_,
    barcodeCommandGuardUntilMs_, barcodeInputReadyAtMs_, isRfidReady_, accepted>>

\* the log entry of one readFrame call
ReadFrameCall(via, stream, buffer, lastByteAtMs, frameGapMs, frame) ==
  [ op |-> "readFrame", via |-> via, arg |-> frameGapMs,
    pre |-> [stream |-> stream, buffer |-> buffer, lastByteAtMs |-> lastByteAtMs,
             millis |-> millis],
    post |-> [stream |-> frame.stream, buffer |-> frame.buffer,
              lastByteAtMs |-> frame.lastByteAtMs],
    emitted |-> frame.emitted,
    lineOut |-> frame.lineOut ]

\* readFrame(barcodeSerial_, barcodeBuffer_, line, barcodeLastByteAtMs_, BARCODE_FRAME_GAP_MS)
ReadFrameBarcode ==
  /\ pc = "readFrame"
  /\ \E frame \in { readFrame(barcodeSerial_, barcodeBuffer_, barcodeLastByteAtMs_,
                              millis, BARCODE_FRAME_GAP_MS) } :
       /\ barcodeSerial_' = frame.stream
       /\ barcodeBuffer_' = frame.buffer
       /\ barcodeLastByteAtMs_' = frame.lastByteAtMs
       /\ calls' = << ReadFrameCall("barcodeSerial", barcodeSerial_, barcodeBuffer_,
                                    barcodeLastByteAtMs_, BARCODE_FRAME_GAP_MS, frame) >>
  /\ UNCHANGED <<millis, advances, Serial, debugBuffer_, debugLastByteAtMs_, frameReaderFixed>>

\* clearBarcodeSerialInput(), as pollBarcodeSerial calls it inside its guard windows
ClearBarcodeSerialInput ==
  /\ pc = "readFrame"
  /\ \E rm \in { clearBarcodeSerialInput(Self) } :
       /\ barcodeSerial_' = rm.barcodeSerial
       /\ barcodeBuffer_' = rm.barcodeBuffer
       /\ barcodeLastByteAtMs_' = rm.barcodeLastByteAtMs
       /\ calls' = << [ op |-> "clearBarcodeSerialInput", via |-> "barcodeSerial",
                        arg |-> <<>>,
                        pre |-> [stream |-> barcodeSerial_, buffer |-> barcodeBuffer_,
                                 lastByteAtMs |-> barcodeLastByteAtMs_, millis |-> millis],
                        post |-> [stream |-> rm.barcodeSerial, buffer |-> rm.barcodeBuffer,
                                  lastByteAtMs |-> rm.barcodeLastByteAtMs],
                        emitted |-> FALSE,
                        lineOut |-> <<>> ] >>
  /\ UNCHANGED <<millis, advances, Serial, debugBuffer_, debugLastByteAtMs_, frameReaderFixed>>

\* the debug console read into the scanner's buffer and timestamp
ReadFrameDebug_SharedBuffer ==
  /\ pc = "readFrame"
  /\ \E frame \in { readFrame(Serial, barcodeBuffer_, barcodeLastByteAtMs_,
                              millis, DEBUG_FRAME_GAP_MS) } :
       /\ Serial' = frame.stream
       /\ barcodeBuffer_' = frame.buffer
       /\ barcodeLastByteAtMs_' = frame.lastByteAtMs
       /\ calls' = << ReadFrameCall("Serial", Serial, barcodeBuffer_,
                                    barcodeLastByteAtMs_, DEBUG_FRAME_GAP_MS, frame) >>
  /\ UNCHANGED <<millis, advances, barcodeSerial_, debugBuffer_, debugLastByteAtMs_,
                 frameReaderFixed>>

\* readFrame(Serial, debugBuffer_, line, debugLastByteAtMs_, DEBUG_FRAME_GAP_MS)
ReadFrameDebug ==
  /\ pc = "readFrame"
  /\ \E frame \in { readFrame(Serial, debugBuffer_, debugLastByteAtMs_,
                              millis, DEBUG_FRAME_GAP_MS) } :
       /\ Serial' = frame.stream
       /\ debugBuffer_' = frame.buffer
       /\ debugLastByteAtMs_' = frame.lastByteAtMs
       /\ calls' = << ReadFrameCall("Serial", Serial, debugBuffer_,
                                    debugLastByteAtMs_, DEBUG_FRAME_GAP_MS, frame) >>
  /\ UNCHANGED <<millis, advances, barcodeSerial_, barcodeBuffer_, barcodeLastByteAtMs_,
                 frameReaderFixed>>

\* time passes between two calls
FrameAdvanceClock ==
  /\ pc = "readFrame"
  /\ advances < MaxAdvances
  /\ \E ms \in FrameClockSteps : millis' = U32Add(millis, U32(ms))
  /\ advances' = advances + 1
  /\ UNCHANGED <<barcodeSerial_, barcodeBuffer_, barcodeLastByteAtMs_, Serial, debugBuffer_,
                 debugLastByteAtMs_, calls, frameReaderFixed>>

FrameNext ==
  \/ ReadFrameBarcode
  \/ ReadFrameDebug
  \/ ClearBarcodeSerialInput
  \/ FrameAdvanceClock

FrameSpec == FrameInit /\ [][FrameNext]_vars

----------------------------------------------------------------------------
(* The program with a scanner that sends only while the UART is guarded *)

\* bytes arrive on the barcode UART before the boot-stabilization deadline or
\* inside a command guard window, and at no other time
BootNoiseReceive ==
  /\ pc = "pollTouchInput"
  /\ barcodeSerial_ = <<>>
  /\ \/ U32Lt(millis, barcodeInputReadyAtMs_)
     \/ U32Lt(millis, barcodeCommandGuardUntilMs_)
  /\ \E chunk \in BarcodeChunks : Commit([Self EXCEPT !.barcodeSerial = chunk, !.calls = calls])
  /\ UNCHANGED <<pc, advances, dispatcherVars>>

BootNext ==
  \/ Setup
  \/ PollTouchInput
  \/ PollDebugSerial
  \/ PollBarcodeSerial
  \/ PollRfidCard
  \/ UpdateThankYouState
  \/ CameraUpdate
  \/ AdvanceClock
  \/ BootNoiseReceive

BootSpec == Init /\ [][BootNext]_vars

----------------------------------------------------------------------------
(* The program with a scanner that sends only while the state is THANK_YOU *)

\* milliseconds by which the clock advances between two iterations: the frame
\* gap, and the rest of the dwell after the payment tone
DwellClockSteps == { 300, 2700 }

\* bytes arrive on the barcode UART before an iteration that starts in
\* THANK_YOU, and at no other time: the barcode poll of that iteration reads
\* them before the timeout check runs
ThankYouScanReceive ==
  /\ pc = "pollTouchInput"
  /\ appState_ = "THANK_YOU"
  /\ barcodeSerial_ = <<>>
  /\ barcodeBuffer_ = <<>>
  /\ \E chunk \in BarcodeChunks : Commit([Self EXCEPT !.barcodeSerial = chunk, !.calls = calls])
  /\ UNCHANGED <<pc, advances, dispatcherVars>>

\* time passes between two iterations
DwellAdvanceClock ==
  /\ pc = "pollTouchInput"
  /\ advances < MaxAdvances
  /\ \E ms \in DwellClockSteps : Commit([delay(Self, ms) EXCEPT !.calls = calls])
  /\ advances' = advances + 1
  /\ UNCHANGED <<pc, dispatcherVars>>

ThankYouScanNext ==
  \/ Setup
  \/ PollTouchInput
  \/ PollDebugSerial
  \/ PollBarcodeSerial
  \/ PollRfidCard
  \/ UpdateThankYouState
  \/ CameraUpdate
  \/ DwellAdvanceClock
  \/ ThankYouScanReceive

ThankYouScanSpec == Init /\ [][ThankYouScanNext]_vars

----------------------------------------------------------------------------
(* getRfidUidHex on its own *)

\* the program at rest at a position: the state after construction
AtRest(position) ==
  /\ pc = position
  /\ millis = U32(0)
  /\ advances = 0
  /\ appMode = "SELECT"
  /\ activeMode = "null"
  /\ wasTouching = FALSE
  /\ CameraAtRest
  /\ cart_ = <<>>
  /\ appState_ = "NORMAL"
  /\ thankYouStartedAtMs_ = U32(0)
  /\ barcodeBuffer_ = <<>>
  /\ debugBuffer_ = <<>>
  /\ barcodeLastByteAtMs_ = U32(0)
  /\ debugLastByteAtMs_ = U32(0)
  /\ barcodeCommandGuardUntilMs_ = U32(0)
  /\ barcodeInputReadyAtMs_ = U32(0)
  /\ isRfidReady_ = FALSE
  /\ barcodeSerial_ = <<>>
  /\ Serial = <<>>
  /\ accepted = <<>>
  /\ calls = <<>>

\* everything but the position and the call log
stateAtRest ==
  <<millis, advances, appMode, activeMode, wasTouching, cameraVars, cart_, appState_,
    thankYouStartedAtMs_, barcodeBuffer_, debugBuffer_, barcodeLastByteAtMs_,
    debugLastByteAtMs_, barcodeCommandGuardUntilMs_, barcodeInputReadyAtMs_,
    isRfidReady_, barcodeSerial_, Serial, accepted>>

\* values of rfidReader_.uid.uidByte[index]: around the one-digit boundary,
\* around the letter digits, and the extremes
UidByteValues == {0, 9, 10, 15, 16, 159, 175, 255}

RECURSIVE UidsOfLen(_)
UidsOfLen(n) ==
  IF n = 0 THEN { <<>> }
  ELSE { Append(uid, byte) : uid \in UidsOfLen(n - 1), byte \in UidByteValues }

\* rfidReader_.uid: uid.size bytes
Uids == UNION { UidsOfLen(n) : n \in 0..MaxUidLen } \cup CardUids

\* const String uid = getRfidUidHex()
GetRfidUidHex ==
  /\ pc = "getRfidUidHex"
  /\ \E uidBytes \in Uids :
       calls' = << [ op |-> "getRfidUidHex", via |-> "pollRfidCard",
                     arg |-> uidBytes, result |-> getRfidUidHex(uidBytes) ] >>
  /\ pc' = "rendered"
  /\ UNCHANGED stateAtRest

UidSpec == AtRest("getRfidUidHex") /\ [][GetRfidUidHex]_vars

----------------------------------------------------------------------------
(* handleDebugLine on its own *)

\* frames of the debug console: printable bytes, not empty.  "BC:ABC123" with
\* and without blanks around it and behind the prefix, a control response, a
\* code that is too short, the bare prefixes, UIDs, and lines with neither
\* prefix (lower case, prefix not at the start, colon missing)
DebugLines ==
  { STR_BC \o CODE_B,
    <<32>> \o STR_BC \o CODE_B,
    STR_BC \o CODE_B \o <<32, 32>>,
    STR_BC \o <<32>> \o CODE_B,
    STR_BC \o STR_DOLLAR_AB,
    STR_BC \o STR_UID_7,
    STR_BC,
    STR_RFID \o STR_UID_04A1,
    <<32, 32>> \o STR_RFID \o STR_UID_7,
    STR_RFID,
    STR_RFID \o <<32>>,
    STR_XY,
    <<98, 99, 58>> \o CODE_B,
    <<88>> \o STR_BC \o CODE_B,
    <<66, 67>> \o CODE_B,
    <<82, 70, 73, 68>> \o STR_UID_04A1,
    CODE_B }

\* codes accepted before the line arrives
DebugLineHistories == { <<>>, <<CODE_A>>, <<CODE_A, CODE_B, CODE_A, CODE_B>> }

DebugLineInit ==
  /\ pc = "handleDebugLine"
  /\ millis = U32(5000)
  /\ advances = 0
  /\ appMode = "REGISTER"
  /\ activeMode = "register"
  /\ wasTouching = FALSE
  /\ CameraAtRest
  /\ accepted \in DebugLineHistories
  /\ cart_ = SubSeq([i \in 1..Len(accepted) |-> resolveItemFromCode(accepted[i])],
                    Max(Len(accepted) - ITEM_VISIBLE_ROWS, 0) + 1, Len(accepted))
  /\ appState_ \in {"NORMAL", "THANK_YOU"}
  /\ thankYouStartedAtMs_ = (IF appState_ = "THANK_YOU" THEN U32(4000) ELSE U32(0))
  /\ barcodeBuffer_ = <<>>
  /\ debugBuffer_ = <<>>
  /\ barcodeLastByteAtMs_ = U32(0)
  /\ debugLastByteAtMs_ = U32(5000)
  /\ barcodeCommandGuardUntilMs_ = U32(480)
  /\ barcodeInputReadyAtMs_ = U32(1860)
  /\ isRfidReady_ = TRUE
  /\ barcodeSerial_ = <<>>
  /\ Serial = <<>>
  /\ calls = <<>>

\* handleDebugLine(line), logged with the line and the object before and after
HandleDebugLine ==
  /\ pc = "handleDebugLine"
  /\ \E line \in DebugLines :
       \E rm \in { handleDebugLine(Self, line) } :
         Commit([rm EXCEPT !.calls = << [ op |-> "handleDebugLine", via |-> "Serial",
                                          arg |-> line, pre |-> Self, post |-> rm ] >>
                                      \o rm.calls])
  /\ pc' = "handled"
  /\ UNCHANGED <<advances, dispatcherVars>>

DebugLineSpec == DebugLineInit /\ [][HandleDebugLine]_vars

----------------------------------------------------------------------------
(* The two channel polls on their own: pollBarcodeSerial and pollDebugSerial *)
(* on streams that hold several frames at once or one frame in several       *)
(* pieces.                                                                   *)

\* what arrives on the barcode UART between two polls: "ABC123" LF
\* "4912345678904" CR LF "AB"; "C" LF; "AB"; LF LF; "ABC123"
PollPieces ==
  { CODE_B \o <<CH_LF>> \o CODE_A \o <<CH_CR, CH_LF, 65, 66>>,
    <<67, CH_LF>>,
    <<65, 66>>,
    <<CH_LF, CH_LF>>,
    CODE_B }

\* what arrives on the debug console between two polls: "BC:ABC123" LF "XY" CR
\* "BC:"; "4912345678904" LF; "X"
PollDebugPieces ==
  { STR_BC \o CODE_B \o <<CH_LF>> \o STR_XY \o <<CH_CR>> \o STR_BC,
    CODE_A \o <<CH_LF>>,
    <<88>> }

\* milliseconds by which the clock advances between two polls
PollClockSteps == { 1, 300 }

\* register mode in NORMAL, 5 s after boot, both channels idle
PollInit ==
  /\ pc = "update"
  /\ millis = U32(5000)
  /\ advances = 0
  /\ appMode = "REGISTER"
  /\ activeMode = "register"
  /\ wasTouching = FALSE
  /\ CameraAtRest
  /\ cart_ = <<>>
  /\ appState_ = "NORMAL"
  /\ thankYouStartedAtMs_ = U32(0)
  /\ barcodeBuffer_ = <<>>
  /\ debugBuffer_ = <<>>
  /\ barcodeLastByteAtMs_ = U32(0)
  /\ debugLastByteAtMs_ = U32(0)
  /\ barcodeCommandGuardUntilMs_ = U32(480)
  /\ barcodeInputReadyAtMs_ = U32(1860)
  /\ isRfidReady_ = FALSE
  /\ barcodeSerial_ = <<>>
  /\ Serial = <<>>
  /\ accepted = <<>>
  /\ calls = <<>>

\* the log entry of one poll or flush of a channel, put before the calls it made
ChannelCall(op, via, stream, buffer, lastByteAtMs, rm, after) ==
  [rm EXCEPT !.calls =
     << [ op |-> op, via |-> via, arg |-> <<>>,
          pre |-> [stream |-> stream, buffer |-> buffer, lastByteAtMs |-> lastByteAtMs,
                   millis |-> millis],
          post |-> after ] >> \o rm.calls]

\* pollBarcodeSerial()
PollBarcode ==
  /\ pc = "update"
  /\ \E rm \in { pollBarcodeSerial(Self) } :
       Commit(ChannelCall("pollBarcodeSerial", "update", barcodeSerial_, barcodeBuffer_,
                          barcodeLastByteAtMs_, rm,
                          [stream |-> rm.barcodeSerial, buffer |-> rm.barcodeBuffer,
                           lastByteAtMs |-> rm.barcodeLastByteAtMs]))
  /\ UNCHANGED <<pc, advances, dispatcherVars>>

\* pollDebugSerial()
PollDebug ==
  /\ pc = "update"
  /\ \E rm \in { pollDebugSerial(Self) } :
       Commit(ChannelCall("pollDebugSerial", "update", Serial, debugBuffer_,
                          debugLastByteAtMs_, rm,
                          [stream |-> rm.Serial, buffer |-> rm.debugBuffer,
                           lastByteAtMs |-> rm.debugLastByteAtMs]))
  /\ UNCHANGED <<pc, advances, dispatcherVars>>

\* clearBarcodeSerialInput()
PollClear ==
  /\ pc = "update"
  /\ \E rm \in { clearBarcodeSerialInput(Self) } :
       Commit(ChannelCall("clearBarcodeSerialInput", "update", barcodeSerial_,
                          barcodeBuffer_, barcodeLastByteAtMs_, rm,
                          [stream |-> rm.barcodeSerial, buffer |-> rm.barcodeBuffer,
                           lastByteAtMs |-> rm.barcodeLastByteAtMs]))
  /\ UNCHANGED <<pc, advances, dispatcherVars>>

\* the scanner sends the next piece once the last one has been read
PollArrive ==
  /\ pc = "update"
  /\ barcodeSerial_ = <<>>
  /\ advances < MaxPollEvents
  /\ \E piece \in PollPieces : Commit([Self EXCEPT !.barcodeSerial = piece, !.calls = calls])
  /\ advances' = advances + 1
  /\ UNCHANGED <<pc, dispatcherVars>>

\* the console sends the next piece once the last one has been read
PollDebugArrive ==
  /\ pc = "update"
  /\ Serial = <<>>
  /\ advances < MaxPollEvents
  /\ \E piece \in PollDebugPieces : Commit([Self EXCEPT !.Serial = piece, !.calls = calls])
  /\ advances' = advances + 1
  /\ UNCHANGED <<pc, dispatcherVars>>

\* time passes between two polls
PollAdvanceClock ==
  /\ pc = "update"
  /\ advances < MaxPollEvents
  /\ \E ms \in PollClockSteps : Commit([delay(Self, ms) EXCEPT !.calls = calls])
  /\ advances' = advances + 1
  /\ UNCHANGED <<pc, dispatcherVars>>

PollNext ==
  \/ PollBarcode
  \/ PollDebug
  \/ PollClear
  \/ PollArrive
  \/ PollDebugArrive
  \/ PollAdvanceClock

PollSpec == PollInit /\ [][PollNext]_vars

----------------------------------------------------------------------------
(* The two channel polls with the millisecond counter about to wrap *)

\* register mode in NORMAL, 200 ms before millis() wraps (49.7 days after
\* boot), both channels idle; the deadlines are those setup() left
WrapInit ==
  /\ pc = "update"
  /\ millis = <<65535, 65336>>
  /\ advances = 0
  /\ appMode = "REGISTER"
  /\ activeMode = "register"
  /\ wasTouching = FALSE
  /\ CameraAtRest
  /\ cart_ = <<>>
  /\ appState_ = "NORMAL"
  /\ thankYouStartedAtMs_ = U32(0)
  /\ barcodeBuffer_ = <<>>
  /\ debugBuffer_ = <<>>
  /\ barcodeLastByteAtMs_ = U32(0)
  /\ debugLastByteAtMs_ = U32(0)
  /\ barcodeCommandGuardUntilMs_ = U32(480)
  /\ barcodeInputReadyAtMs_ = U32(1860)
  /\ isRfidReady_ = FALSE
  /\ barcodeSerial_ = <<>>
  /\ Serial = <<>>
  /\ accepted = <<>>
  /\ calls = <<>>

WrapSpec == WrapInit /\ [][PollNext]_vars

----------------------------------------------------------------------------
(* The monolithic sketch: the same program with cart, appState, appMode,   *)
(* cameraViewState and the channel buffers as globals, the mode checked    *)
(* inside the handlers, and loop() calling the polls itself.  Its helpers  *)
(* (readFrame, tryNormalizeInput, isBarcodeControlResponse, the tones,     *)
(* clearBarcodeSerialInput, sendBarcodeCommand, initializeCameraModule,    *)
(* updateCameraLiveScreen) are the ones of the modes, line for line.       *)

\* the globals of the sketch, with the clock and the two streams
Sketch ==
  [ cart |-> cart_,
    appMode |-> appMode,
    appState |-> appState_,
    cameraViewState |-> viewState_,
    thankYouStartedAtMs |-> thankYouStartedAtMs_,
    wasTouching |-> wasTouching,
    barcodeBuffer |-> barcodeBuffer_,
    debugBuffer |-> debugBuffer_,
    barcodeLastByteAtMs |-> barcodeLastByteAtMs_,
    debugLastByteAtMs |-> debugLastByteAtMs_,
    barcodeCommandGuardUntilMs |-> barcodeCommandGuardUntilMs_,
    barcodeInputReadyAtMs |-> barcodeInputReadyAtMs_,
    isCameraInitialized |-> isCameraInitialized_,
    isCameraReady |-> isCameraReady_,
    isRfidReady |-> isRfidReady_,
    barcodeSerial |-> barcodeSerial_,
    Serial |-> Serial,
    millis |-> millis,
    accepted |-> accepted,
    calls |-> <<>> ]

Sketch_handleBarcodeCode(g, rawCode) ==
  IF g.appMode # "REGISTER" \/ g.appState # "NORMAL" THEN g
  ELSE IF isBarcodeControlResponse(rawCode) THEN g
  ELSE IF ~tryNormalizeInput(rawCode).ok THEN g
  ELSE IF Len(tryNormalizeInput(rawCode).normalizedInput) < BARCODE_MIN_VALID_LENGTH THEN g
  ELSE
    LET code == tryNormalizeInput(rawCode).normalizedInput
        toned == playScanTone(g)
        item == resolveItemFromCode(code)
    IN  [toned EXCEPT !.cart = trimCartForDisplay(Append(g.cart, item)),
                      !.accepted = Append(g.accepted, code)]

Sketch_handleRfidUid(g, rawUid) ==
  IF g.appMode # "REGISTER" \/ g.appState # "NORMAL" THEN g
  ELSE IF ~tryNormalizeInput(rawUid).ok THEN g
  ELSE
    playPaymentTone([g EXCEPT !.cart = <<>>,
                              !.accepted = <<>>,
                              !.appState = "THANK_YOU",
                              !.thankYouStartedAtMs = g.millis])

\* the while loop of pollBarcodeSerial()
RECURSIVE Sketch_pollBarcodeFrames(_)
Sketch_pollBarcodeFrames(g) ==
  LET frame == readFrame(g.barcodeSerial, g.barcodeBuffer, g.barcodeLastByteAtMs,
                         g.millis, BARCODE_FRAME_GAP_MS)
      read == [g EXCEPT !.barcodeSerial = frame.stream,
                        !.barcodeBuffer = frame.buffer,
                        !.barcodeLastByteAtMs = frame.lastByteAtMs]
  IN  IF frame.emitted
      THEN Sketch_pollBarcodeFrames(Sketch_handleBarcodeCode(read, frame.lineOut))
      ELSE read

Sketch_pollBarcodeSerial(g) ==
  IF U32Lt(g.millis, g.barcodeInputReadyAtMs) THEN clearBarcodeSerialInput(g)
  ELSE IF U32Lt(g.millis, g.barcodeCommandGuardUntilMs) THEN clearBarcodeSerialInput(g)
  ELSE Sketch_pollBarcodeFrames(g)

Sketch_pollRfidCard(g, present, readOk, uidBytes) ==
  IF ~g.isRfidReady THEN g
  ELSE IF ~present THEN g
  ELSE IF ~readOk THEN g
  ELSE Sketch_handleRfidUid(g, getRfidUidHex(uidBytes))

Sketch_handleDebugLine(g, rawLine) ==
  LET line == Trim(rawLine) IN
  IF StartsWith(line, STR_BC) THEN Sketch_handleBarcodeCode(g, Substring(line, 3))
  ELSE IF StartsWith(line, STR_RFID) THEN Sketch_handleRfidUid(g, Substring(line, 5))
  ELSE g

RECURSIVE Sketch_pollDebugSerial(_)
Sketch_pollDebugSerial(g) ==
  LET frame == readFrame(g.Serial, g.debugBuffer, g.debugLastByteAtMs,
                         g.millis, DEBUG_FRAME_GAP_MS)
      read == [g EXCEPT !.Serial = frame.stream,
                        !.debugBuffer = frame.buffer,
                        !.debugLastByteAtMs = frame.lastByteAtMs]
  IN  IF frame.emitted
      THEN Sketch_pollDebugSerial(Sketch_handleDebugLine(read, frame.lineOut))
      ELSE read

Sketch_switchToRegisterMode(g) ==
  [g EXCEPT !.appMode = "REGISTER",
            !.appState = "NORMAL",
            !.cameraViewState = "LIVE",
            !.wasTouching = FALSE]

Sketch_switchToCameraMode(g, normalOk, compactOk, captureOk) ==
  LET switched == [g EXCEPT !.appMode = "CAMERA",
                            !.appState = "NORMAL",
                            !.cameraViewState = "LIVE",
                            !.wasTouching = FALSE]
      initialized == initializeCameraModule(switched, normalOk, compactOk)
  IN  IF ~initialized.isCameraReady THEN initialized
      ELSE updateCameraLiveScreen(initialized, captureOk)

Sketch_handleModeSelectionTouch(g, touchX, touchY, normalOk, compactOk, captureOk) ==
  IF isPointInsideRect(touchX, touchY, getRegisterModeButtonRect)
  THEN Sketch_switchToRegisterMode(playStartupTone(g))
  ELSE IF isPointInsideRect(touchX, touchY, getCameraModeButtonRect)
  THEN Sketch_switchToCameraMode(playStartupTone(g), normalOk, compactOk, captureOk)
  ELSE g

Sketch_handleRegisterTouch(g, touchX, touchY) ==
  IF g.appState # "NORMAL" THEN g
  ELSE IF ~isPointInsideRect(touchX, touchY, getClearButtonHitRect) THEN g
  ELSE clearCart(playScanTone(g))

Sketch_handleCameraTouch(g, normalOk, compactOk, captureOk, shutterWaitMs) ==
  IF ~g.isCameraReady THEN Sketch_switchToCameraMode(g, normalOk, compactOk, captureOk)
  ELSE IF g.cameraViewState = "LIVE"
  THEN [g EXCEPT !.millis = U32Add(@, U32(shutterWaitMs)), !.cameraViewState = "STILL"]
  ELSE updateCameraLiveScreen([g EXCEPT !.cameraViewState = "LIVE"], captureOk)

\* in: the touch sample and what the camera driver returns
Sketch_pollTouchInput(g, in) ==
  IF ~in.isTouching \/ g.wasTouching THEN [g EXCEPT !.wasTouching = in.isTouching]
  ELSE
    LET touchX == in.point[1]
        touchY == in.point[2]
        handled ==
          IF g.appMode = "SELECT"
          THEN Sketch_handleModeSelectionTouch(g, touchX, touchY,
                                               in.normalOk, in.compactOk, in.captureOk)
          ELSE IF g.appMode = "REGISTER"
          THEN Sketch_handleRegisterTouch(g, touchX, touchY)
          ELSE Sketch_handleCameraTouch(g, in.normalOk, in.compactOk, in.captureOk,
                                        in.shutterWaitMs)
    IN  [handled EXCEPT !.wasTouching = in.isTouching]

Sketch_updateThankYouState(g) ==
  IF g.appMode # "REGISTER" \/ g.appState # "THANK_YOU" THEN g
  ELSE IF U32Lt(U32Sub(g.millis, g.thankYouStartedAtMs), U32(THANK_YOU_DURATION_MS)) THEN g
  ELSE [g EXCEPT !.appState = "NORMAL"]

Sketch_updateCameraState(g, captureOk) ==
  IF g.appMode # "CAMERA" THEN g
  ELSE IF g.cameraViewState # "LIVE" THEN g
  ELSE updateCameraLiveScreen(g, captureOk)

\* setup(): initializeBarcodeSerial(), then initializeRfidReader()
Sketch_setup(g, rfidOk) ==
  LET configured == applyBarcodeScannerSettings(g)
      ready == [configured EXCEPT !.barcodeInputReadyAtMs =
                  U32Add(configured.millis, U32(BARCODE_BOOT_STABILIZE_MS))]
  IN  [clearBarcodeSerialInput(ready) EXCEPT !.isRfidReady = rfidOk]

\* setup() and loop(), one call at a time: the globals after the call made at
\* the position at, and the position of the call that follows it
Sketch_loop(g, at, in) ==
  CASE at = "setup" ->
         [g |-> Sketch_setup(g, in.rfidOk), at |-> "pollTouchInput"]
    [] at = "pollTouchInput" ->
         LET touched == Sketch_pollTouchInput(g, in)
         IN  [g |-> touched,
              at |-> IF touched.appMode = "REGISTER" THEN "pollDebugSerial"
                     ELSE "updateCameraState"]
    [] at = "pollDebugSerial" ->
         [g |-> Sketch_pollDebugSerial(g), at |-> "pollBarcodeSerial"]
    [] at = "pollBarcodeSerial" ->
         [g |-> Sketch_pollBarcodeSerial(g), at |-> "pollRfidCard"]
    [] at = "pollRfidCard" ->
         [g |-> Sketch_pollRfidCard(g, in.present, in.readOk, in.uidBytes),
          at |-> "updateThankYouState"]
    [] at = "updateThankYouState" ->
         [g |-> Sketch_updateThankYouState(g), at |-> "updateCameraState"]
    [] at = "updateCameraState" ->
         [g |-> Sketch_updateCameraState(g, in.captureOk), at |-> "pollTouchInput"]

----------------------------------------------------------------------------
(* Properties *)

LastN(s, n) == IF Len(s) <= n THEN s ELSE SubSeq(s, Len(s) - n + 1, Len(s))

CallsOf(op) == { i \in 1..Len(calls) : calls[i].op = op }

\* a call left the cart, the application state and the entry timestamp alone
NoEffect(c) ==
  /\ c.post.cart = c.pre.cart
  /\ c.post.appState = c.pre.appState
  /\ c.post.thankYouStartedAtMs = c.pre.thankYouStartedAtMs

\* milliseconds between the entry timestamp and the time of the call
Elapsed(c) == ToInt(U32Sub(c.pre.millis, c.pre.thankYouStartedAtMs))

\* the items of the codes the scanner and the debug console deliver here
ResolvedItems == [code \in {CODE_A, CODE_B} |-> resolveItemFromCode(code)]

ItemOf(code) ==
  IF code \in DOMAIN ResolvedItems THEN ResolvedItems[code] ELSE resolveItemFromCode(code)

ItemsOf(codes) == [i \in 1..Len(codes) |-> ItemOf(codes[i])]

\* C1: the cart holds at most 3 items, the items resolved from the most recent
\* (up to 3) codes accepted since the last clear or payment, in acceptance
\* order; every handleBarcodeCode call leaves the cart alone or appends one
\* item at the end, evicting the oldest item when it is the fourth.
C1_CartIsLastThreeAccepted ==
  /\ Len(cart_) <= 3
  /\ cart_ = ItemsOf(LastN(accepted, 3))
  /\ \A i \in CallsOf("handleBarcodeCode") :
       \/ calls[i].post.cart = calls[i].pre.cart
       \/ calls[i].post.cart =
            LastN(Append(calls[i].pre.cart, ItemOf(Trim(calls[i].arg))), 3)

\* a fourth, different code was accepted and the oldest item was evicted
C1_Witness ==
  /\ Len(accepted) >= 4
  /\ accepted[Len(accepted)] # accepted[Len(accepted) - 3]
  /\ Len(cart_) = 3
  /\ \E i \in CallsOf("handleBarcodeCode") :
       Len(calls[i].pre.cart) = 3 /\ calls[i].post.cart # calls[i].pre.cart

\* C2: handleBarcodeCode called in state THANK_YOU changes neither the cart nor
\* the application state nor the entry timestamp, for every code: for the
\* calls the polls make and for every probe code in every THANK_YOU state.
C2_BarcodeIgnoredInThankYou ==
  /\ \A i \in CallsOf("handleBarcodeCode") :
       calls[i].pre.appState = "THANK_YOU" => NoEffect(calls[i])
  /\ appState_ = "THANK_YOU" =>
       \A code \in {CODE_A, CODE_B, STR_3u, STR_PADDED_123} :
         Snapshot(handleBarcodeCode(Self, code)) = Snapshot(Self)

\* a valid code reached handleBarcodeCode while the state was THANK_YOU
C2_Witness ==
  \E i \in CallsOf("handleBarcodeCode") :
    /\ calls[i].pre.appState = "THANK_YOU"
    /\ calls[i].arg \in {CODE_A, CODE_B}

\* C3: handleRfidUid called in state NORMAL with a UID of trimmed length >= 2
\* empties the cart, enters THANK_YOU and records the time of the call as the
\* entry timestamp; the total is then 0.
C3_PaymentClearsAndEntersThankYou ==
  \A i \in CallsOf("handleRfidUid") :
    (calls[i].pre.appState = "NORMAL" /\ Len(Trim(calls[i].arg)) >= 2) =>
      /\ calls[i].post.cart = <<>>
      /\ calls[i].post.appState = "THANK_YOU"
      /\ calls[i].post.thankYouStartedAtMs = calls[i].pre.millis
      /\ calculateTotalSum(calls[i].post.cart) = 0

\* a card was presented while the cart held items
C3_Witness ==
  \E i \in CallsOf("handleRfidUid") :
    /\ calls[i].pre.appState = "NORMAL"
    /\ calls[i].pre.cart # <<>>
    /\ calls[i].post.appState = "THANK_YOU"

\* every updateThankYouState call in THANK_YOU keeps the state up to 2999 ms
\* after the entry timestamp and returns to NORMAL from 3000 ms on
C4_TickBoundary ==
  \A i \in CallsOf("updateThankYouState") :
    calls[i].pre.appState = "THANK_YOU" =>
      /\ Elapsed(calls[i]) <= 2999 => calls[i].post.appState = "THANK_YOU"
      /\ Elapsed(calls[i]) >= 3000 => calls[i].post.appState = "NORMAL"

\* C4: after THANK_YOU is entered at t0 the state is still THANK_YOU after any
\* tick with now - t0 <= 2999 and NORMAL after the first tick with
\* now - t0 >= 3000, and no step other than updateThankYouState leaves
\* THANK_YOU.
C4_DwellIsExactly3000 ==
  /\ []C4_TickBoundary
  /\ [][(appState_ = "THANK_YOU" /\ appState_' # "THANK_YOU")
          => (pc = "updateThankYouState" /\ appState_' = "NORMAL")]_vars

\* a tick exactly 3000 ms after the entry returned to NORMAL
C4_Witness ==
  \E i \in CallsOf("updateThankYouState") :
    /\ calls[i].pre.appState = "THANK_YOU"
    /\ Elapsed(calls[i]) = 3000
    /\ calls[i].post.appState = "NORMAL"

\* the model's clock has stopped before the dwell has elapsed
ClockStoppedEarly ==
  /\ advances = MaxAdvances
  /\ U32Lt(U32Sub(millis, thankYouStartedAtMs_), U32(3000))

\* C5: whenever the state is THANK_YOU it eventually is NORMAL again, as long
\* as the loop keeps iterating and the clock keeps advancing, whatever input
\* arrives meanwhile.
C5_ThankYouEventuallyEnds ==
  (appState_ = "THANK_YOU") ~> (appState_ = "NORMAL" \/ ClockStoppedEarly)

\* the state returned to NORMAL after a dwell during which a touch was sampled
C5_Witness ==
  /\ wasTouching
  /\ \E i \in CallsOf("updateThankYouState") :
       /\ calls[i].pre.appState = "THANK_YOU"
       /\ Elapsed(calls[i]) > 3000
       /\ calls[i].post.appState = "NORMAL"

\* the point lies in the CLEAR hit rectangle
InClearHitRect(point) ==
  /\ point[1] \in getClearButtonHitRect.x .. (getClearButtonHitRect.x + getClearButtonHitRect.w - 1)
  /\ point[2] \in getClearButtonHitRect.y .. (getClearButtonHitRect.y + getClearButtonHitRect.h - 1)

\* C6: a touch inside the CLEAR hit rectangle in state NORMAL empties the cart
\* (total 0) and keeps NORMAL; in state THANK_YOU it changes neither cart nor
\* state nor entry timestamp; a touch outside never changes the cart.
C6_ClearTouch ==
  \A i \in CallsOf("onTouch") :
    /\ (InClearHitRect(calls[i].arg) /\ calls[i].pre.appState = "NORMAL") =>
         /\ calls[i].post.cart = <<>>
         /\ calculateTotalSum(calls[i].post.cart) = 0
         /\ calls[i].post.appState = "NORMAL"
    /\ (InClearHitRect(calls[i].arg) /\ calls[i].pre.appState = "THANK_YOU") =>
         NoEffect(calls[i])
    /\ ~InClearHitRect(calls[i].arg) => calls[i].post.cart = calls[i].pre.cart

\* CLEAR was pressed on a non-empty cart
C6_Witness ==
  \E i \in CallsOf("onTouch") :
    /\ InClearHitRect(calls[i].arg)
    /\ calls[i].pre.appState = "NORMAL"
    /\ calls[i].pre.cart # <<>>
    /\ calls[i].post.cart = <<>>

RECURSIVE ExpectedTotal(_)
ExpectedTotal(codes) ==
  IF codes = <<>> THEN 0
  ELSE ExpectedTotal(SubSeq(codes, 1, Len(codes) - 1)) + ItemOf(codes[Len(codes)]).price

\* C8: the displayed total is the sum of the prices of the retained items and
\* the rows drawn are the retained items; the total is 0 for an empty cart and
\* 2 x p after one code of price p was accepted twice into an empty cart.
C8_TotalIsSumOfRetained ==
  /\ calculateTotalSum(cart_) = ExpectedTotal(LastN(accepted, 3))
  /\ Len(drawCartItems(cart_)) = Len(cart_)
  /\ cart_ = <<>> => calculateTotalSum(cart_) = 0
  /\ (Len(accepted) = 2 /\ accepted[1] = accepted[2]) =>
       calculateTotalSum(cart_) = 2 * ItemOf(accepted[1]).price

\* "ABC123" (price 260) was accepted twice: the total is 520
C8_Witness ==
  /\ accepted = <<CODE_B, CODE_B>>
  /\ calculateTotalSum(cart_) = 520

\* the frame is a scanner control response
IsControlFrame(frame) ==
  \/ frame = <<51, 117>>
  \/ Len(frame) \in 1..4 /\ frame[1] \in {34, 36}

\* C9: a barcode frame that is a control response ("3u", or at most 4 bytes
\* starting with a double quote or "$") never produces a cart item, in any
\* state, from the barcode channel or from a debug BC: line.
C9_ControlFramesNeverAdd ==
  /\ \A i \in CallsOf("handleBarcodeCode") :
       IsControlFrame(calls[i].arg) => calls[i].post.cart = calls[i].pre.cart
  /\ \A frame \in {STR_3u, STR_DOLLAR_AB, <<34>>, <<36>>, <<34, 65, 66, 67>>, <<36, 49, 50, 51>>} :
       handleBarcodeCode(Self, frame).cart = cart_

\* "$AB" typed as a debug BC: line reached handleBarcodeCode in state NORMAL
C9_Witness ==
  \E i \in CallsOf("handleBarcodeCode") :
    /\ calls[i].arg = STR_DOLLAR_AB
    /\ calls[i].via = "Serial"
    /\ calls[i].pre.appState = "NORMAL"

\* C10: a barcode code of trimmed length below 6 and an RFID UID of trimmed
\* length below 2 change neither the cart nor the state nor the entry
\* timestamp.
C10_TooShortIsDiscarded ==
  /\ \A i \in CallsOf("handleBarcodeCode") :
       Len(Trim(calls[i].arg)) < 6 => NoEffect(calls[i])
  /\ \A i \in CallsOf("handleRfidUid") :
       Len(Trim(calls[i].arg)) < 2 => NoEffect(calls[i])

\* a frame of six bytes, three after trimming, reached handleBarcodeCode in
\* state NORMAL
C10_Witness ==
  \E i \in CallsOf("handleBarcodeCode") :
    /\ calls[i].arg = STR_PADDED_123
    /\ calls[i].pre.appState = "NORMAL"

\* C11: for every code the price resolveItemFromCode returns lies between 50
\* and 500 and is 50 plus a multiple of 10.
C11_PriceInRange ==
  \A i \in CallsOf("resolveItemFromCode") :
    /\ calls[i].result.price >= 50
    /\ calls[i].result.price <= 500
    /\ (calls[i].result.price - 50) % 10 = 0

\* a code was resolved to the highest price, 500
C11_Witness ==
  \E i \in CallsOf("resolveItemFromCode") : calls[i].result.price = 500

\* 32-bit FNV-1a written out on four bytes, least significant first
RefXor8(a, b) ==
  LET bit(weight) == ((a \div weight) + (b \div weight)) % 2
  IN  bit(1) + 2 * bit(2) + 4 * bit(4) + 8 * bit(8)
      + 16 * bit(16) + 32 * bit(32) + 64 * bit(64) + 128 * bit(128)

\* h * 16777619 modulo 2^32, with 16777619 = 2^24 + 403
RefTimesPrime(h) ==
  LET t1 == h[1] * 403
      t2 == h[2] * 403 + (t1 \div 256)
      t3 == h[3] * 403 + (t2 \div 256)
      t4 == h[4] * 403 + (t3 \div 256) + h[1]
  IN  <<t1 % 256, t2 % 256, t3 % 256, t4 % 256>>

\* 2166136261 = 0x811C9DC5
RefOffsetBasis == <<197, 157, 28, 129>>

RECURSIVE RefFnvFrom(_, _, _)
RefFnvFrom(h, input, index) ==
  IF index > Len(input) THEN h
  ELSE LET next == RefTimesPrime(<<RefXor8(h[1], input[index]), h[2], h[3], h[4]>>)
       IN  IF next[4] < 256 THEN RefFnvFrom(next, input, index + 1) ELSE next

RefFnv(input) == RefFnvFrom(RefOffsetBasis, input, 1)

RefMod(h, n) == ((((((h[4] % n) * 256 + h[3]) % n) * 256 + h[2]) % n) * 256 + h[1]) % n

\* "|NAME|v1" and "|PRICE|v1"
RefNameIndex(code) == RefMod(RefFnv(code \o <<124, 78, 65, 77, 69, 124, 118, 49>>), 19)
RefPrice(code) == 50 + RefMod(RefFnv(code \o <<124, 80, 82, 73, 67, 69, 124, 118, 49>>), 46) * 10

\* C12: for every code resolveItemFromCode returns the name
\* PRODUCT_NAMES[h(code + "|NAME|v1") mod 19] and the price
\* 50 + (h(code + "|PRICE|v1") mod 46) * 10, h being 32-bit FNV-1a (start
\* 2166136261; per byte xor, then times 16777619 modulo 2^32); the index is
\* within the 19 names.  "4912345678904" gives the fifth name and 240, "A9z"
\* the seventeenth and 480, the empty code the second and 140.
C12_ResolverIsSaltedFnv1a ==
  /\ Len(PRODUCT_NAMES) = 19
  /\ \A i \in CallsOf("resolveItemFromCode") :
       /\ RefNameIndex(calls[i].arg) \in 0..18
       /\ calls[i].result.name = PRODUCT_NAMES[RefNameIndex(calls[i].arg) + 1]
       /\ calls[i].result.price = RefPrice(calls[i].arg)
       /\ calls[i].arg = <<52, 57, 49, 50, 51, 52, 53, 54, 55, 56, 57, 48, 52>> =>
            calls[i].result = [name |-> PRODUCT_NAMES[5], price |-> 240]
       /\ calls[i].arg = <<65, 57, 122>> =>
            calls[i].result = [name |-> PRODUCT_NAMES[17], price |-> 480]
       /\ calls[i].arg = <<>> =>
            calls[i].result = [name |-> PRODUCT_NAMES[2], price |-> 140]

\* "4912345678904" was resolved to the fifth name at 240
C12_Witness ==
  \E i \in CallsOf("resolveItemFromCode") :
    /\ calls[i].arg = CODE_A
    /\ calls[i].result.name = "ringo"
    /\ calls[i].result.price = 240

\* the bytes a readFrame call took from the stream
Consumed(c) == SubSeq(c.pre.stream, 1, Len(c.pre.stream) - Len(c.post.stream))

IsPrintable(byte) == byte >= 32 /\ byte <= 126

\* what the buffer holds once the first k bytes of the call have been read,
\* provided no frame ended among them
BufferedAfter(c, k) ==
  LastN(c.pre.buffer \o SelectSeq(SubSeq(Consumed(c), 1, k), IsPrintable), 128)

\* the original statement of C13: no frame ends at a carriage return, and
\* "AB" CR "CD" LF is read as the one frame "ABCD"
C13_CarriageReturnDiscarded ==
  \A i \in CallsOf("readFrame") :
    /\ (calls[i].emitted /\ Consumed(calls[i]) # <<>>) =>
         Consumed(calls[i])[Len(Consumed(calls[i]))] # 13
    /\ (calls[i].pre.stream = <<65, 66, 13, 67, 68, 10>> /\ calls[i].pre.buffer = <<>>) =>
         (calls[i].emitted /\ calls[i].lineOut = <<65, 66, 67, 68>>)

\* C13 (amended): a carriage return ends a frame exactly as a newline does:
\* read with buffered content it ends the call with that content as the
\* frame, read with an empty buffer it is skipped; it is never buffered.  The
\* bytes "AB" CR "CD" LF yield the frame "AB" and leave "CD" LF unread, which
\* the next call yields as the frame "CD".
C13_CarriageReturnTerminates ==
  \A i \in CallsOf("readFrame") :
    /\ \A k \in 1..Len(Consumed(calls[i])) :
         Consumed(calls[i])[k] = 13 =>
           \/ BufferedAfter(calls[i], k - 1) = <<>>
           \/ /\ k = Len(Consumed(calls[i]))
              /\ calls[i].emitted
              /\ calls[i].lineOut = BufferedAfter(calls[i], k - 1)
              /\ calls[i].post.buffer = <<>>
    /\ \A k \in 1..Len(calls[i].post.buffer) : calls[i].post.buffer[k] # 13
    /\ \A k \in 1..Len(calls[i].lineOut) : calls[i].lineOut[k] # 13
    /\ (calls[i].pre.stream = <<65, 66, 13, 67, 68, 10>> /\ calls[i].pre.buffer = <<>>) =>
         /\ calls[i].emitted
         /\ calls[i].lineOut = <<65, 66>>
         /\ calls[i].post.stream = <<67, 68, 10>>
    /\ (calls[i].pre.stream = <<67, 68, 10>> /\ calls[i].pre.buffer = <<>>) =>
         /\ calls[i].emitted
         /\ calls[i].lineOut = <<67, 68>>
         /\ calls[i].post.stream = <<>>

\* "AB" CR "CD" LF was read into an empty buffer: the frame is "AB"
C13_Witness ==
  \E i \in CallsOf("readFrame") :
    /\ calls[i].pre.stream = <<65, 66, 13, 67, 68, 10>>
    /\ calls[i].pre.buffer = <<>>
    /\ calls[i].emitted
    /\ calls[i].lineOut = <<65, 66>>

\* C14: a newline read while the buffer holds content ends the call, emits
\* that content as the frame and leaves the buffer empty; a newline read
\* while the buffer is empty emits nothing; no emitted frame is empty.
C14_NewlineEmitsNonEmpty ==
  \A i \in CallsOf("readFrame") :
    /\ calls[i].emitted => (calls[i].lineOut # <<>> /\ calls[i].post.buffer = <<>>)
    /\ \A k \in 1..Len(Consumed(calls[i])) :
         Consumed(calls[i])[k] = 10 =>
           IF BufferedAfter(calls[i], k - 1) # <<>>
           THEN /\ k = Len(Consumed(calls[i]))
                /\ calls[i].emitted
                /\ calls[i].lineOut = BufferedAfter(calls[i], k - 1)
           ELSE /\ BufferedAfter(calls[i], k) = <<>>
                /\ (k = Len(Consumed(calls[i])) =>
                      (~calls[i].emitted /\ calls[i].post.buffer = <<>>))

\* LF "AB" LF ... was read into an empty buffer: the first newline emitted
\* nothing and the second one the frame "AB"
C14_Witness ==
  \E i \in CallsOf("readFrame") :
    /\ calls[i].pre.buffer = <<>>
    /\ Consumed(calls[i]) = <<10, 65, 66, 10>>
    /\ calls[i].post.stream # <<>>
    /\ calls[i].emitted
    /\ calls[i].lineOut = <<65, 66>>

\* C15: a byte outside 0x20..0x7E that is not a terminator is dropped: it is
\* not buffered and the call goes on to the next byte; a call stops before
\* the end of the stream only at a terminator; every emitted frame and every
\* buffer left behind consists of printable bytes only, in the order received.
C15_NonPrintableDropped ==
  \A i \in CallsOf("readFrame") :
    /\ \A k \in 1..Len(calls[i].lineOut) : IsPrintable(calls[i].lineOut[k])
    /\ \A k \in 1..Len(calls[i].post.buffer) : IsPrintable(calls[i].post.buffer[k])
    /\ \A k \in 1..Len(Consumed(calls[i])) :
         (~IsPrintable(Consumed(calls[i])[k]) /\ Consumed(calls[i])[k] \notin {10, 13}) =>
           /\ BufferedAfter(calls[i], k) = BufferedAfter(calls[i], k - 1)
           /\ (k = Len(Consumed(calls[i])) =>
                 (calls[i].post.stream = <<>> /\ ~calls[i].emitted))
    /\ calls[i].post.stream # <<>> =>
         /\ calls[i].emitted
         /\ Consumed(calls[i])[Len(Consumed(calls[i]))] \in {10, 13}
    /\ (calls[i].emitted /\ Consumed(calls[i]) # <<>>) =>
         calls[i].lineOut = BufferedAfter(calls[i], Len(Consumed(calls[i])) - 1)
    /\ ~calls[i].emitted =>
         calls[i].post.buffer = BufferedAfter(calls[i], Len(Consumed(calls[i])))

\* "A" BEL "B" 0x80 DEL " ~" LF was read into an empty buffer: the frame is
\* "AB ~"
C15_Witness ==
  \E i \in CallsOf("readFrame") :
    /\ calls[i].pre.buffer = <<>>
    /\ Consumed(calls[i]) = <<65, 7, 66, 128, 127, 32, 126, 10>>
    /\ calls[i].emitted
    /\ calls[i].lineOut = <<65, 66, 32, 126>>

\* C16: no readFrame call leaves more than 128 bytes in the buffer or emits a
\* longer frame; more than 128 printable bytes followed by a terminator yield
\* the last 128 of them as the frame, and without a terminator the buffer
\* holds the last 128 of them.
C16_BufferKeepsLast128 ==
  \A i \in CallsOf("readFrame") :
    LET fed == Consumed(calls[i])
        n == Len(fed)
    IN  /\ Len(calls[i].post.buffer) <= 128
        /\ Len(calls[i].lineOut) <= 128
        /\ (/\ n > 129
            /\ fed[n] \in {10, 13}
            /\ \A k \in 1..(n - 1) : IsPrintable(fed[k])) =>
             /\ calls[i].emitted
             /\ calls[i].lineOut = SubSeq(fed, n - 128, n - 1)
             /\ calls[i].post.buffer = <<>>
        /\ (/\ n > 128
            /\ \A k \in 1..n : IsPrintable(fed[k])) =>
             /\ ~calls[i].emitted
             /\ calls[i].post.buffer = SubSeq(fed, n - 127, n)

\* more than 128 printable bytes and a newline were read: the frame is the
\* last 128 of them, which differ from the first 128
C16_Witness ==
  \E i \in CallsOf("readFrame") :
    /\ Len(Consumed(calls[i])) > 129
    /\ calls[i].emitted
    /\ Len(calls[i].lineOut) = 128
    /\ calls[i].lineOut # SubSeq(Consumed(calls[i]), 1, 128)
    /\ calls[i].lineOut[128] = Consumed(calls[i])[Len(Consumed(calls[i])) - 1]

\* milliseconds between the channel's last received byte and the call, counted
\* modulo 2^32 as the uint32_t subtraction does; 65536 stands for 65536 or more
FrameElapsed(c) ==
  LET lo == c.pre.millis[2] - c.pre.lastByteAtMs[2]
      hi == (c.pre.millis[1] - c.pre.lastByteAtMs[1] - (IF lo < 0 THEN 1 ELSE 0)) % 65536
  IN  IF hi > 0 THEN 65536 ELSE lo % 65536

\* C17: on the barcode channel, with content buffered and no byte available,
\* a call made before 300 ms have passed since the last received byte emits
\* nothing and keeps the buffer, and a call made once 300 ms have passed
\* emits exactly the buffered content as one frame and leaves the buffer
\* empty.
C17_GapEmitsBufferedContent ==
  \A i \in CallsOf("readFrame") :
    (/\ calls[i].via = "barcodeSerial"
     /\ calls[i].pre.stream = <<>>
     /\ calls[i].pre.buffer # <<>>) =>
      IF FrameElapsed(calls[i]) >= 300
      THEN /\ calls[i].emitted
           /\ calls[i].lineOut = calls[i].pre.buffer
           /\ calls[i].post.buffer = <<>>
      ELSE /\ ~calls[i].emitted
           /\ calls[i].post.buffer = calls[i].pre.buffer

\* "ABC" was buffered and the barcode channel read 300 ms after its last
\* byte: the frame is "ABC"
C17_Witness ==
  \E i \in CallsOf("readFrame") :
    /\ calls[i].via = "barcodeSerial"
    /\ calls[i].pre.stream = <<>>
    /\ calls[i].pre.buffer = <<65, 66, 67>>
    /\ FrameElapsed(calls[i]) = 300
    /\ calls[i].emitted
    /\ calls[i].lineOut = <<65, 66, 67>>
    /\ calls[i].post.buffer = <<>>

\* C18: a readFrame call on a stream with no byte available returns no frame
\* and leaves buffer and timestamp as they were whenever less than the gap
\* has passed since the last received byte, and always when the gap is 0;
\* the debug channel reads with gap 0 and every frame it emits ends at a
\* terminator byte read in that call.
C18_EmptyStreamNoFrame ==
  \A i \in CallsOf("readFrame") :
    /\ (/\ calls[i].pre.stream = <<>>
        /\ (FrameElapsed(calls[i]) < calls[i].arg \/ calls[i].arg = 0)) =>
         /\ ~calls[i].emitted
         /\ calls[i].post.buffer = calls[i].pre.buffer
         /\ calls[i].post.lastByteAtMs = calls[i].pre.lastByteAtMs
    /\ calls[i].via = "Serial" =>
         /\ calls[i].arg = 0
         /\ calls[i].emitted =>
              /\ Consumed(calls[i]) # <<>>
              /\ Consumed(calls[i])[Len(Consumed(calls[i]))] \in {10, 13}

\* the debug channel was read with content buffered, no byte available and
\* 300 ms or more since its last byte: no frame, the buffer stays
C18_Witness ==
  \E i \in CallsOf("readFrame") :
    /\ calls[i].via = "Serial"
    /\ calls[i].pre.stream = <<>>
    /\ calls[i].pre.buffer # <<>>
    /\ FrameElapsed(calls[i]) >= 300
    /\ ~calls[i].emitted
    /\ calls[i].post.buffer = calls[i].pre.buffer

\* the original statement of C19: every readFrame call takes all the bytes
\* that were available from the stream, and a call that ends through the
\* inactivity fallback emits one frame, the buffered content
C19_ConsumesAllAvailable ==
  \A i \in CallsOf("readFrame") :
    /\ calls[i].post.stream = <<>>
    /\ (calls[i].emitted /\ calls[i].pre.stream = <<>>) =>
         (calls[i].lineOut = calls[i].pre.buffer /\ calls[i].post.buffer = <<>>)

\* C19 (amended): a readFrame call takes the available bytes from the front
\* of the stream up to and including the first terminator that ends a
\* non-empty frame and leaves the bytes behind it on the stream; when there
\* is no such terminator it takes all of them.  It emits at most one frame,
\* and it ends through the inactivity fallback only when it took no byte,
\* emitting the buffered content.
C19_ConsumesUpToFirstFrame ==
  \A i \in CallsOf("readFrame") :
    LET fed == Consumed(calls[i])
        n == Len(fed)
    IN  /\ calls[i].pre.stream = fed \o calls[i].post.stream
        /\ ~calls[i].emitted => calls[i].post.stream = <<>>
        /\ \A k \in 1..n :
             (fed[k] \in {10, 13} /\ BufferedAfter(calls[i], k - 1) # <<>>) =>
               (k = n /\ calls[i].emitted)
        /\ calls[i].post.stream # <<>> =>
             (fed[n] \in {10, 13} /\ BufferedAfter(calls[i], n - 1) # <<>>)
        /\ (calls[i].emitted /\ n > 0) => fed[n] \in {10, 13}
        /\ (calls[i].emitted /\ n = 0) =>
             /\ calls[i].arg > 0
             /\ calls[i].lineOut = calls[i].pre.buffer
             /\ calls[i].post.buffer = <<>>

\* LF "C" CR LF was available: the call took LF "C" CR, emitted "C" and left
\* the last newline on the stream
C19_Witness ==
  \E i \in CallsOf("readFrame") :
    /\ Consumed(calls[i]) = <<10, 67, 13>>
    /\ calls[i].post.stream = <<10>>
    /\ calls[i].emitted
    /\ calls[i].lineOut = <<67>>

\* the bytes of s all come from the debug console: lower-case letters
FromSerial(s) == \A k \in 1..Len(s) : s[k] >= 97 /\ s[k] <= 122

\* no byte of s comes from the debug console
FromBarcodeSerial(s) == \A k \in 1..Len(s) : s[k] < 97 \/ s[k] > 122

\* every frame and buffer of a channel holds bytes of that channel's stream only
C20_FramesFromOneStream ==
  /\ FromBarcodeSerial(barcodeBuffer_)
  /\ FromSerial(debugBuffer_)
  /\ \A i \in 1..Len(calls) :
       IF calls[i].via = "Serial"
       THEN FromSerial(calls[i].lineOut) /\ FromSerial(calls[i].post.buffer)
       ELSE FromBarcodeSerial(calls[i].lineOut) /\ FromBarcodeSerial(calls[i].post.buffer)

\* a step of one channel leaves the other channel's buffer and timestamp alone
C20_StepOfOneChannel ==
  /\ (calls' # calls /\ calls'[1].via = "barcodeSerial") =>
       /\ UNCHANGED <<debugBuffer_, debugLastByteAtMs_, Serial>>
       /\ barcodeBuffer_' = calls'[1].post.buffer
       /\ barcodeLastByteAtMs_' = calls'[1].post.lastByteAtMs
  /\ (calls' # calls /\ calls'[1].via = "Serial") =>
       /\ UNCHANGED <<barcodeBuffer_, barcodeLastByteAtMs_, barcodeSerial_>>
       /\ debugBuffer_' = calls'[1].post.buffer
       /\ debugLastByteAtMs_' = calls'[1].post.lastByteAtMs
  /\ <<barcodeBuffer_, barcodeLastByteAtMs_>>' # <<barcodeBuffer_, barcodeLastByteAtMs_>> =>
       UNCHANGED <<debugBuffer_, debugLastByteAtMs_>>

\* C20: the two channels share no decode state: a readFrame call of the
\* barcode poll and clearBarcodeSerialInput leave the debug channel's buffer
\* and last-byte timestamp unchanged, a readFrame call of the debug poll
\* leaves the barcode channel's buffer and timestamp unchanged, and every
\* frame consists of bytes of its own channel's stream only.
C20_ChannelsIndependent == []C20_FramesFromOneStream /\ [][C20_StepOfOneChannel]_vars

\* the debug console's frame "ab" was emitted while the scanner's buffer held
\* content, which is still there
C20_Witness ==
  /\ \E i \in CallsOf("readFrame") :
       /\ calls[i].via = "Serial"
       /\ calls[i].emitted
       /\ calls[i].lineOut = <<97, 98>>
  /\ barcodeBuffer_ # <<>>
  /\ Serial # <<>>

\* the variables of the register: cart, state, timestamps, buffers and clock
registerState ==
  <<cart_, appState_, thankYouStartedAtMs_, barcodeBuffer_, debugBuffer_,
    barcodeLastByteAtMs_, debugLastByteAtMs_, barcodeCommandGuardUntilMs_,
    barcodeInputReadyAtMs_, barcodeSerial_, Serial, millis, accepted>>

\* the calls of the last step that went to the RFID reader or came from it
ReaderCalls == SelectSeq(calls, LAMBDA c : c.via = "rfidReader")

\* with the reader not ready no call of the last step involves the reader
C21_NoReaderCallWhenNotReady == ~isRfidReady_ => ReaderCalls = <<>>

\* once setup() has returned the readiness flag keeps its value, and a
\* pollRfidCard step with the flag false makes no call and changes nothing
C21_PollIsNoOpWhenNotReady ==
  /\ pc # "setup" => isRfidReady_' = isRfidReady_
  /\ (pc = "pollRfidCard" /\ ~isRfidReady_) =>
       (calls' = <<>> /\ UNCHANGED registerState /\ UNCHANGED <<appMode, activeMode>>)

\* C21: when the I2C probe of the RFID reader fails in initialize,
\* isRfidReady stays false for the rest of the run and every pollRfidCard
\* call is a no-op: it issues no reader operation and changes no state of
\* the application.
C21_RfidDisabledForGood ==
  []C21_NoReaderCallWhenNotReady /\ [][C21_PollIsNoOpWhenNotReady]_vars

\* the reader is not ready, pollRfidCard has just run, and the cart holds an
\* item scanned or typed in the meantime
C21_Witness ==
  /\ ~isRfidReady_
  /\ pc = "updateThankYouState"
  /\ calls = <<>>
  /\ cart_ # <<>>

\* C22: the reader operations of one pollRfidCard call are presence-detect,
\* then read-serial when a card was detected, then, when the read succeeded,
\* handleRfidUid followed by halt and crypto-stop - also when the UID is
\* ignored in THANK_YOU; halt and crypto-stop are not issued when detection
\* or read fails.
C22_ReaderProtocolOrder ==
  LET r == ReaderCalls IN
  \/ r = <<>>
  \/ /\ r[1].op = "PICC_IsNewCardPresent"
     /\ IF ~r[1].result THEN Len(r) = 1
        ELSE /\ Len(r) >= 2
             /\ r[2].op = "PICC_ReadCardSerial"
             /\ IF ~r[2].result THEN Len(r) = 2
                ELSE /\ Len(r) = 5
                     /\ r[3].op = "handleRfidUid"
                     /\ r[4].op = "PICC_HaltA"
                     /\ r[5].op = "PCD_StopCrypto1"

\* a card was read while the thank-you screen was up: its UID changed
\* nothing, and the card was halted and the crypto session stopped
C22_Witness ==
  /\ Len(ReaderCalls) = 5
  /\ ReaderCalls[3].pre.appState = "THANK_YOU"
  /\ NoEffect(ReaderCalls[3])
  /\ ReaderCalls[5].op = "PCD_StopCrypto1"

\* the sixteen hexadecimal digits, upper case: "0123456789ABCDEF"
UpperHexDigits == <<48, 49, 50, 51, 52, 53, 54, 55, 56, 57, 65, 66, 67, 68, 69, 70>>

\* C23: getRfidUidHex renders a UID of n bytes as 2n characters: the i-th
\* byte gives the characters 2i-1 and 2i (counted from 1), its high and its
\* low nibble as upper-case hexadecimal digits, so a byte below 16 is padded
\* with "0" and nothing stands between the bytes.
C23_UidIsTwoUpperHexDigitsPerByte ==
  \A c \in CallsOf("getRfidUidHex") :
    /\ Len(calls[c].result) = 2 * Len(calls[c].arg)
    /\ \A i \in 1..Len(calls[c].arg) :
         /\ calls[c].result[2 * i - 1] = UpperHexDigits[(calls[c].arg[i] \div 16) + 1]
         /\ calls[c].result[2 * i] = UpperHexDigits[(calls[c].arg[i] % 16) + 1]

\* the UID 0A 00 FF was rendered: "0A00FF"
C23_Witness ==
  \E c \in CallsOf("getRfidUidHex") :
    /\ calls[c].arg = <<10, 0, 255>>
    /\ calls[c].result = <<48, 65, 48, 48, 70, 70>>

\* s without its first n bytes
Rest(s, n) == SubSeq(s, n + 1, Len(s))

HasPrefix(s, prefix) == Len(s) >= Len(prefix) /\ \A i \in 1..Len(prefix) : s[i] = prefix[i]

\* s without the blanks at its two ends
Stripped(s) ==
  LET inner == { i \in 1..Len(s) : s[i] # 32 }
  IN  IF inner = {} THEN <<>>
      ELSE SubSeq(s, CHOOSE i \in inner : \A j \in inner : i <= j,
                     CHOOSE i \in inner : \A j \in inner : i >= j)

\* "BC:" and "RFID:"
PrefixBC == <<66, 67, 58>>
PrefixRFID == <<82, 70, 73, 68, 58>>

\* the call handled line as a barcode frame, as a UID, or not at all,
\* according to the prefix of prefixed
HandledByPrefix(c, prefixed) ==
  IF HasPrefix(prefixed, PrefixBC)
  THEN Snapshot(c.post) = Snapshot(handleBarcodeCode(c.pre, Rest(prefixed, 3)))
  ELSE IF HasPrefix(prefixed, PrefixRFID)
  THEN Snapshot(c.post) = Snapshot(handleRfidUid(c.pre, Rest(prefixed, 5)))
  ELSE Snapshot(c.post) = Snapshot(c.pre)

\* the original statement of C24: a line is dispatched on the prefix it
\* starts with, and a line starting with neither prefix changes nothing
C24_DispatchOnRawLine ==
  \A i \in CallsOf("handleDebugLine") : HandledByPrefix(calls[i], calls[i].arg)

\* C24 (amended): a debug-console line is dispatched after its leading and
\* trailing whitespace is removed: if it then starts with "BC:" it is handled
\* exactly as a barcode frame equal to the rest (same state guard,
\* control-response filter and minimum length), if it then starts with
\* "RFID:" exactly as an RFID UID equal to the rest, and any other line
\* changes no application state.
C24_DispatchOnTrimmedLine ==
  \A i \in CallsOf("handleDebugLine") :
    /\ HandledByPrefix(calls[i], Stripped(calls[i].arg))
    /\ calls[i].post.barcodeBuffer = calls[i].pre.barcodeBuffer
    /\ calls[i].post.debugBuffer = calls[i].pre.debugBuffer
    /\ calls[i].post.isRfidReady = calls[i].pre.isRfidReady

\* " BC:ABC123" arrived in NORMAL with one item in the cart: the item of
\* "ABC123" was appended
C24_Witness ==
  \E i \in CallsOf("handleDebugLine") :
    /\ calls[i].arg = <<32, 66, 67, 58, 65, 66, 67, 49, 50, 51>>
    /\ calls[i].pre.appState = "NORMAL"
    /\ Len(calls[i].pre.cart) = 1
    /\ Len(calls[i].post.cart) = 2
    /\ calls[i].post.cart[2] = ItemOf(<<65, 66, 67, 49, 50, 51>>)

\* C25: no byte that arrives on the barcode UART inside a command guard
\* window or before the boot-stabilization deadline becomes part of a frame
\* passed to handleBarcodeCode.  With a scanner that sends at no other time
\* (BootSpec), no frame of the barcode UART is ever passed to handleBarcodeCode.
C25_GuardedBytesNeverHandled ==
  \A i \in CallsOf("handleBarcodeCode") : calls[i].via # "barcodeSerial"

----------------------------------------------------------------------------
(* C26: blocking waits after setup *)

\* the step is one of the program, not of the clock or of a sender
ProgramStepAfterSetup == pc # "setup" /\ advances' = advances

\* the program waited ms milliseconds in the step
Waited(ms) == U32Sub(millis', millis) = U32(ms)

\* the step accepted an RFID payment
PaymentAcceptedInStep ==
  \E i \in 1..Len(calls') :
    /\ calls'[i].op = "handleRfidUid"
    /\ calls'[i].pre.appState = "NORMAL"
    /\ calls'[i].post.appState = "THANK_YOU"

\* C26 as stated: after setup has returned no step of a loop iteration (touch
\* handling, channel polls, RFID poll, timeout check) performs a blocking wait
C26_NoWaitAfterSetup ==
  [][ProgramStepAfterSetup => millis' = millis]_vars

\* C26 amended: after setup has returned, the barcode poll, the timeout check and
\* the camera update never wait and no step sends a scanner command; a step
\* waits only between the steps of a tone (310 ms when the RFID poll or the
\* debug poll accepts a payment, 80 ms when a touch selects a mode, the waits
\* of the shutter tone on a camera shot) and for 20 ms between the two camera
\* profiles when the first fails
C26_WaitsOnlyInTonesAndCameraInit ==
  [][ProgramStepAfterSetup =>
       /\ barcodeCommandGuardUntilMs_' = barcodeCommandGuardUntilMs_
       /\ pc \in {"pollBarcodeSerial", "updateThankYouState", "cameraUpdate"}
            => millis' = millis
       /\ pc \in {"pollRfidCard", "pollDebugSerial"}
            => IF PaymentAcceptedInStep THEN Waited(150 + 160) ELSE millis' = millis
       /\ pc = "pollTouchInput" =>
            IF appMode = "SELECT" /\ appMode' = "REGISTER" THEN Waited(40 + 40)
            ELSE IF appMode = "SELECT" /\ appMode' = "CAMERA"
              THEN Waited(40 + 40) \/ Waited(40 + 40 + 20)
            ELSE IF appMode = "CAMERA" /\ ~wasTouching /\ wasTouching'
              THEN IF ~isCameraReady_ THEN millis' = millis \/ Waited(20)
                   ELSE IF viewState_ = "LIVE" THEN \E ms \in ShutterToneWaits : Waited(ms)
                   ELSE millis' = millis
            ELSE millis' = millis
  ]_vars

\* a payment was accepted after setup and its tone made the program wait 310 ms
C26_Witness ==
  /\ pc \in {"pollBarcodeSerial", "updateThankYouState"}
  /\ \E i \in CallsOf("handleRfidUid") :
       /\ calls[i].pre.appState = "NORMAL"
       /\ calls[i].post.appState = "THANK_YOU"
       /\ U32Sub(calls[i].post.millis, calls[i].pre.millis) = U32(310)

----------------------------------------------------------------------------
(* C27: touch handling is edge-triggered *)

\* the step is pollTouchInput()
TouchPollStep ==
  /\ pc = "pollTouchInput"
  /\ advances' = advances
  /\ barcodeSerial_' = barcodeSerial_
  /\ Serial' = Serial

\* the touch handlers: mode selection, register mode, camera mode
TouchHandlers == { "handleModeSelectionTouch", "onTouch", "CameraMode::onTouch" }

\* the handler calls made by the step, by their places in the log
HandlerCallsInStep ==
  { i \in 1..Len(calls') : calls'[i].op \in TouchHandlers /\ calls'[i].via = "touch" }

\* C27: a poll invokes a touch handler exactly when its sample is touching and
\* the previous sample was not, and then invokes one handler once; the sample
\* becomes the previous sample, so a held touch triggers nothing more and a new
\* action needs a not-touching sample in between
C27_TouchIsEdgeTriggered ==
  [][TouchPollStep =>
       /\ HandlerCallsInStep # {} <=> (~wasTouching /\ wasTouching')
       /\ Cardinality(HandlerCallsInStep) <= 1
       /\ wasTouching /\ wasTouching' => HandlerCallsInStep = {}
  ]_vars

\* register mode polled a touch that is still held: no handler was invoked
\* although the cart could have been cleared
C27_Witness ==
  /\ pc = "pollDebugSerial"
  /\ wasTouching
  /\ appState_ = "NORMAL"
  /\ cart_ # <<>>
  /\ \A i \in 1..Len(calls) : calls[i].op \notin TouchHandlers

----------------------------------------------------------------------------
(* C28: the dispatcher forwards to the selected mode *)

\* the positions inside RegisterMode::update()
RegisterUpdatePositions ==
  { "pollDebugSerial", "pollBarcodeSerial", "pollRfidCard", "updateThankYouState" }

\* activeMode is the object that appMode names, and update() runs on it only
ActiveModeIsSelectedMode ==
  /\ appMode = "SELECT" <=> activeMode = "null"
  /\ appMode = "REGISTER" <=> activeMode = "register"
  /\ appMode = "CAMERA" <=> activeMode = "camera"
  /\ pc \in RegisterUpdatePositions => appMode = "REGISTER"
  /\ pc = "cameraUpdate" => appMode = "CAMERA"

\* the step called op through one of the callers vias
CalledInStep(op, vias) ==
  \E i \in 1..Len(calls') : calls'[i].op = op /\ calls'[i].via \in vias

\* a press goes to the handler of the mode selected when it is sampled
PressGoesToSelectedMode ==
  TouchPollStep /\ HandlerCallsInStep # {} =>
    \A i \in HandlerCallsInStep :
      calls'[i].op = CASE appMode = "SELECT" -> "handleModeSelectionTouch"
                       [] appMode = "REGISTER" -> "onTouch"
                       [] appMode = "CAMERA" -> "CameraMode::onTouch"

\* enter() is called through one of the callers vias exactly in the steps that
\* select the mode
EnterExactlyOnSelection(vias) ==
  /\ appMode' # appMode => TouchPollStep /\ appMode = "SELECT"
  /\ TouchPollStep =>
       /\ CalledInStep("RegisterMode::enter", vias)
            <=> (appMode = "SELECT" /\ appMode' = "REGISTER")
       /\ CalledInStep("CameraMode::enter", vias)
            <=> (appMode = "SELECT" /\ appMode' = "CAMERA")

\* every caller of enter() there is
EnterCallers == { "switchToRegisterMode", "switchToCameraMode", "CameraMode::onTouch" }

\* C28 as stated: activeMode is the mode appMode names, presses and updates go
\* to that mode and to none in SELECT, and a mode's enter() is called exactly
\* when the mode is selected
C28_EnterOnlyOnSelection ==
  /\ []ActiveModeIsSelectedMode
  /\ [][PressGoesToSelectedMode /\ EnterExactlyOnSelection(EnterCallers)]_vars

\* C28 amended: activeMode is the mode appMode names, presses and updates go to
\* that mode and to none in SELECT, and the dispatcher calls a mode's enter()
\* exactly when the mode is selected; CameraMode::onTouch calls enter() of its
\* own mode again on a press that finds the camera not ready
C28_DispatcherEntersOnSelection ==
  /\ []ActiveModeIsSelectedMode
  /\ [][/\ PressGoesToSelectedMode
        /\ EnterExactlyOnSelection({ "switchToRegisterMode", "switchToCameraMode" })
        /\ ~CalledInStep("RegisterMode::enter", { "CameraMode::onTouch" })
        /\ TouchPollStep =>
             (CalledInStep("CameraMode::enter", { "CameraMode::onTouch" })
                <=> /\ appMode = "CAMERA"
                    /\ ~isCameraReady_
                    /\ CalledInStep("CameraMode::onTouch", { "touch" }))
     ]_vars

\* camera mode was selected: its enter() was called by switchToCameraMode and
\* its update() is about to run
C28_Witness ==
  /\ appMode = "CAMERA"
  /\ activeMode = "camera"
  /\ pc = "cameraUpdate"
  /\ \E i \in CallsOf("CameraMode::enter") : calls[i].via = "switchToCameraMode"

----------------------------------------------------------------------------
(* C29: after camera initialization has failed *)

\* camera mode is selected and its last initialization failed with both profiles
CameraInitFailed == appMode = "CAMERA" /\ ~isCameraInitialized_

\* the step called esp_camera_init() and got this result
InitAttemptInStep(result) ==
  \E i \in 1..Len(calls') : calls'[i].op = "esp_camera_init" /\ calls'[i].result = result

\* the step is a pollTouchInput() that found a new press
PressStep == TouchPollStep /\ ~wasTouching /\ wasTouching'

\* C29 as stated: once both profiles have failed, no later touch or update makes
\* the camera ready again or issues another initialization attempt, and no step
\* blocks
C29_CameraDisabledForGood ==
  [][CameraInitFailed /\ advances' = advances =>
       /\ ~isCameraReady_'
       /\ ~InitAttemptInStep(TRUE) /\ ~InitAttemptInStep(FALSE)
       /\ millis' = millis
  ]_vars

\* C29 amended: once both profiles have failed, update() and polls without a
\* press leave the camera not ready, attempt no initialization and do not wait;
\* every press attempts the initialization again, waiting 20 ms when the normal
\* profile fails, and the camera is initialized again iff a profile succeeds
C29_CameraRetriesOnTouchOnly ==
  [][CameraInitFailed /\ advances' = advances =>
       IF PressStep
       THEN /\ InitAttemptInStep(TRUE) \/ InitAttemptInStep(FALSE)
            /\ isCameraInitialized_' <=> InitAttemptInStep(TRUE)
            /\ isCameraReady_' => isCameraInitialized_'
            /\ IF InitAttemptInStep(FALSE) THEN Waited(20) ELSE millis' = millis
       ELSE /\ ~isCameraReady_' /\ ~isCameraInitialized_'
            /\ ~InitAttemptInStep(TRUE) /\ ~InitAttemptInStep(FALSE)
            /\ millis' = millis
  ]_vars

\* a press after a failed initialization tried again: the normal profile
\* failed once more, the compact one succeeded and the camera is ready
C29_Witness ==
  /\ pc = "cameraUpdate"
  /\ isCameraReady_
  /\ \E i \in CallsOf("CameraMode::enter") : calls[i].via = "CameraMode::onTouch"
  /\ \E i \in CallsOf("esp_camera_init") : calls[i].arg = "normal" /\ ~calls[i].result
  /\ \E i \in CallsOf("esp_camera_init") : calls[i].arg = "compact" /\ calls[i].result

----------------------------------------------------------------------------
(* C30: the order of the steps of a register-mode iteration *)

\* the successive positions of loop() in register mode
RegisterLoopOrder ==
  { <<"pollTouchInput", "pollDebugSerial">>,
    <<"pollDebugSerial", "pollBarcodeSerial">>,
    <<"pollBarcodeSerial", "pollRfidCard">>,
    <<"pollRfidCard", "updateThankYouState">>,
    <<"updateThankYouState", "pollTouchInput">> }

\* a frame handleBarcodeCode accepts in state NORMAL
IsValidFrame(frame) == ~IsControlFrame(frame) /\ Len(Stripped(frame)) >= 6

\* the barcode poll just made handed a valid frame to handleBarcodeCode in NORMAL
ValidFramesJustHandled ==
  { i \in CallsOf("handleBarcodeCode") :
      /\ calls[i].via = "barcodeSerial"
      /\ calls[i].pre.appState = "NORMAL"
      /\ IsValidFrame(calls[i].arg) }

\* the RFID poll of the step read a card with a UID
CardReadInStep ==
  \E j \in 1..Len(calls') :
    /\ calls'[j].op = "handleRfidUid"
    /\ calls'[j].via = "rfidReader"
    /\ Len(calls'[j].arg) >= 2

\* the RFID poll just made accepted a payment
PaymentJustAccepted ==
  \E j \in CallsOf("handleRfidUid") :
    /\ calls[j].via = "rfidReader"
    /\ calls[j].pre.appState = "NORMAL"
    /\ calls[j].post.appState = "THANK_YOU"

\* C30: in register mode the steps of an iteration follow one another in the
\* order touch sampling, debug poll, barcode poll, RFID poll, timeout check,
\* each handler being called from its own step only; so when the barcode poll
\* has handled a valid frame in NORMAL and the RFID poll of the same iteration
\* reads a card, the item is in the cart before the payment, the payment
\* empties the cart and enters THANK_YOU, and the timeout check that ends the
\* iteration leaves it so
C30_FixedOrderAppendThenPay ==
  [][/\ appMode' = "REGISTER" /\ pc' # pc => <<pc, pc'>> \in RegisterLoopOrder
     /\ appMode = "REGISTER" /\ TouchPollStep => pc' = "pollDebugSerial"
     /\ pc' # pc =>
          /\ CalledInStep("handleBarcodeCode", { "Serial" }) => pc = "pollDebugSerial"
          /\ CalledInStep("handleRfidUid", { "Serial" }) => pc = "pollDebugSerial"
          /\ CalledInStep("handleBarcodeCode", { "barcodeSerial" }) => pc = "pollBarcodeSerial"
          /\ CalledInStep("handleRfidUid", { "rfidReader" }) => pc = "pollRfidCard"
          /\ CalledInStep("updateThankYouState", { "loop" }) => pc = "updateThankYouState"
     /\ pc = "pollRfidCard" /\ ValidFramesJustHandled # {} /\ CardReadInStep =>
          /\ \A i \in ValidFramesJustHandled :
               /\ cart_ # <<>>
               /\ cart_[Len(cart_)] = ItemOf(Stripped(calls[i].arg))
          /\ cart_' = <<>>
          /\ appState_' = "THANK_YOU"
     /\ pc = "updateThankYouState" /\ PaymentJustAccepted =>
          cart_' = <<>> /\ appState_' = "THANK_YOU"
  ]_vars

\* the RFID poll accepted a payment for a cart that was not empty, at the clock
\* value at which the barcode poll read the last byte of a frame; the cart is
\* empty and the state THANK_YOU when the timeout check is about to run
C30_Witness ==
  /\ pc = "updateThankYouState"
  /\ appState_ = "THANK_YOU"
  /\ cart_ = <<>>
  /\ \E j \in CallsOf("handleRfidUid") :
       /\ calls[j].via = "rfidReader"
       /\ calls[j].pre.appState = "NORMAL"
       /\ calls[j].pre.cart # <<>>
       /\ calls[j].pre.millis = barcodeLastByteAtMs_

----------------------------------------------------------------------------
(* C31: cards presented during THANK_YOU *)

\* every handleRfidUid call made in THANK_YOU left cart, state, entry timestamp
\* and clock alone
RfidIgnoredInThankYou ==
  \A i \in CallsOf("handleRfidUid") :
    calls[i].pre.appState = "THANK_YOU" =>
      NoEffect(calls[i]) /\ calls[i].post.millis = calls[i].pre.millis

\* C31: handleRfidUid called in THANK_YOU, from the reader or from an RFID:
\* debug line, changes nothing, and no step taken in THANK_YOU that stays in
\* THANK_YOU moves the entry timestamp: the dwell runs from the first accepted
\* card and the first timeout check 3000 ms after it returns to NORMAL
C31_NoRestartInThankYou ==
  /\ []RfidIgnoredInThankYou
  /\ []C4_TickBoundary
  /\ [][appState_ = "THANK_YOU" /\ appState_' = "THANK_YOU"
          => thankYouStartedAtMs_' = thankYouStartedAtMs_]_vars

\* the reader read a card with a UID while the state was THANK_YOU, later than
\* the entry timestamp
C31_Witness ==
  \E i \in CallsOf("handleRfidUid") :
    /\ calls[i].via = "rfidReader"
    /\ calls[i].pre.appState = "THANK_YOU"
    /\ Len(calls[i].arg) >= 2
    /\ calls[i].pre.millis # calls[i].pre.thankYouStartedAtMs

----------------------------------------------------------------------------
(* C32: one poll of a channel *)

\* the frames that end at a terminator in the stream, in order: the printable
\* bytes between two terminators, behind what is pending in the buffer for the
\* first, the newest 128 of them, none for an empty stretch
RECURSIVE TerminatedFrames(_, _)
TerminatedFrames(pending, stream) ==
  LET terminators == { i \in 1..Len(stream) : stream[i] \in {10, 13} }
  IN  IF terminators = {} THEN <<>>
      ELSE
        LET first == CHOOSE i \in terminators : \A j \in terminators : i <= j
            frame == LastN(pending \o SelectSeq(SubSeq(stream, 1, first - 1), IsPrintable), 128)
        IN  (IF frame = <<>> THEN <<>> ELSE <<frame>>)
              \o TerminatedFrames(<<>>, SubSeq(stream, first + 1, Len(stream)))

\* the frame the gap fallback ends: what was pending when no byte is available
\* and the gap has elapsed since the last byte
GapFrame(c, frameGapMs) ==
  IF /\ frameGapMs > 0
     /\ c.pre.stream = <<>>
     /\ c.pre.buffer # <<>>
     /\ ~U32Lt(U32Sub(c.pre.millis, c.pre.lastByteAtMs), U32(frameGapMs))
  THEN <<c.pre.buffer>>
  ELSE <<>>

\* the arguments of the calls of a handler in the log, in the order of the calls
HandedTo(op, via) ==
  LET made == SelectSeq(calls, LAMBDA c : c.op = op /\ c.via = via)
  IN  [k \in 1..Len(made) |-> made[k].arg]

\* C32: a poll of a channel (here outside the guard windows) returns, leaves no
\* byte in the stream and has called the handler once for every frame a
\* terminator ended, in the order of arrival; the only other call is for the
\* frame the gap fallback ends when no byte was available
C32_PollDrainsAndHandsEveryFrame ==
  /\ \A i \in CallsOf("pollBarcodeSerial") :
       /\ calls[i].post.stream = <<>>
       /\ HandedTo("handleBarcodeCode", "barcodeSerial")
            = TerminatedFrames(calls[i].pre.buffer, calls[i].pre.stream)
                \o GapFrame(calls[i], 300)
  /\ \A i \in CallsOf("pollDebugSerial") :
       /\ calls[i].post.stream = <<>>
       /\ HandedTo("handleDebugLine", "Serial")
            = TerminatedFrames(calls[i].pre.buffer, calls[i].pre.stream)

\* one poll found "ABC123" LF "4912345678904" CR LF "AB": it handed the two
\* frames over and kept "AB"
C32_Witness ==
  \E i \in CallsOf("pollBarcodeSerial") :
    /\ HandedTo("handleBarcodeCode", "barcodeSerial") = <<CODE_B, CODE_A>>
    /\ calls[i].post.buffer = <<65, 66>>
    /\ calls[i].post.stream = <<>>

----------------------------------------------------------------------------
(* C33: a channel buffer persists across polls *)

\* the step is a call of op, logged first, and no step of the environment
ChannelStep(op) ==
  /\ advances' = advances
  /\ calls' # <<>>
  /\ calls'[1].op = op

\* C33: a channel buffer changes in polls of its channel and flushes only; a
\* poll that emits no frame leaves in the buffer what it held, followed by the
\* printable bytes read (the newest 128); a frame emitted begins with what the
\* buffer held; a buffer that held bytes is empty after a step only if the step
\* emitted a frame or flushed the channel; after clearBarcodeSerialInput the
\* barcode buffer and the UART input are both empty
C33_BufferPersistsAcrossPolls ==
  [][/\ barcodeBuffer_' # barcodeBuffer_
          => ChannelStep("pollBarcodeSerial") \/ ChannelStep("clearBarcodeSerialInput")
     /\ debugBuffer_' # debugBuffer_ => ChannelStep("pollDebugSerial")
     /\ ChannelStep("pollBarcodeSerial") =>
          IF CalledInStep("handleBarcodeCode", { "barcodeSerial" })
          THEN \E j \in 1..Len(calls') :
                 /\ calls'[j].op = "handleBarcodeCode"
                 /\ \A k \in 1..(j - 1) : calls'[k].op # "handleBarcodeCode"
                 /\ HasPrefix(calls'[j].arg, barcodeBuffer_)
          ELSE barcodeBuffer_'
                 = LastN(barcodeBuffer_ \o SelectSeq(barcodeSerial_, IsPrintable), 128)
     /\ ChannelStep("pollDebugSerial") /\ ~CalledInStep("handleDebugLine", { "Serial" })
          => debugBuffer_' = LastN(debugBuffer_ \o SelectSeq(Serial, IsPrintable), 128)
     /\ barcodeBuffer_ # <<>> /\ barcodeBuffer_' = <<>>
          => \/ ChannelStep("pollBarcodeSerial")
                  /\ CalledInStep("handleBarcodeCode", { "barcodeSerial" })
             \/ ChannelStep("clearBarcodeSerialInput")
     /\ ChannelStep("clearBarcodeSerialInput")
          => barcodeBuffer_' = <<>> /\ barcodeSerial_' = <<>>
  ]_vars

\* "AB" was buffered by an earlier poll; this poll read "C" LF and handed over
\* the one frame "ABC"
C33_Witness ==
  \E i \in CallsOf("pollBarcodeSerial") :
    /\ calls[i].pre.buffer = <<65, 66>>
    /\ calls[i].pre.stream = <<67, CH_LF>>
    /\ HandedTo("handleBarcodeCode", "barcodeSerial") = << <<65, 66, 67>> >>
    /\ barcodeBuffer_ = <<>>

----------------------------------------------------------------------------
(* C34: barcodes scanned during THANK_YOU *)

\* C34: with a scanner that sends only while the state is THANK_YOU, so that
\* every byte is read by a poll made in THANK_YOU, no handleBarcodeCode call
\* ever changes the cart and the cart stays empty, during THANK_YOU and after
\* the return to NORMAL
C34_ThankYouScansNeverAddItems ==
  /\ cart_ = <<>>
  /\ \A i \in CallsOf("handleBarcodeCode") : calls[i].post.cart = calls[i].pre.cart

----------------------------------------------------------------------------
(* C35: the cart during THANK_YOU *)

\* C35: whenever the application state is THANK_YOU the cart is empty and the
\* total is 0
C35_CartEmptyInThankYou ==
  appState_ = "THANK_YOU" => cart_ = <<>> /\ calculateTotalSum(cart_) = 0

\* a valid code was handed to handleBarcodeCode while the state was THANK_YOU:
\* the state is still THANK_YOU and the cart empty
C35_Witness ==
  /\ appState_ = "THANK_YOU"
  /\ cart_ = <<>>
  /\ \E i \in CallsOf("handleBarcodeCode") :
       /\ calls[i].pre.appState = "THANK_YOU"
       /\ IsValidFrame(calls[i].arg)

----------------------------------------------------------------------------
(* C36: the register outside register mode *)

\* no call in the log was made through a channel or the reader
NoChannelCall == \A i \in 1..Len(calls) : calls[i].via \notin { "barcodeSerial", "Serial", "rfidReader" }

\* C36: while the mode is SELECT or CAMERA no step changes the cart, the
\* application state, the THANK_YOU timestamp or a channel buffer, no step
\* takes a byte from a stream, no poll position is reached and no call is made
\* through a channel or the reader; a mode other than SELECT never changes
C36_RegisterIdleOutsideRegisterMode ==
  /\ [](appMode # "REGISTER" => pc \notin RegisterUpdatePositions /\ NoChannelCall)
  /\ [][/\ appMode \in { "SELECT", "CAMERA" } =>
             /\ <<cart_, appState_, thankYouStartedAtMs_, barcodeBuffer_, debugBuffer_>>'
                  = <<cart_, appState_, thankYouStartedAtMs_, barcodeBuffer_, debugBuffer_>>
             /\ barcodeSerial_' # barcodeSerial_ => barcodeSerial_ = <<>>
             /\ Serial' # Serial => Serial = <<>>
        /\ appMode # "SELECT" => appMode' = appMode /\ activeMode' = activeMode
     ]_vars

\* camera mode is about to update while a scan waits unread on the barcode UART
C36_Witness ==
  /\ appMode = "CAMERA"
  /\ pc = "cameraUpdate"
  /\ barcodeSerial_ # <<>>
  /\ cameraTouches >= 2

----------------------------------------------------------------------------
(* C37: the press that selects a mode *)

\* the step called onTouch of a mode
ModeTouchedInStep ==
  \/ CalledInStep("onTouch", { "touch" })
  \/ CalledInStep("CameraMode::onTouch", { "touch" })

\* C37: the poll that selects a mode calls no mode's onTouch, leaves the cart
\* alone and the camera view LIVE, and remembers the press; a mode's onTouch
\* is called only by a poll that follows a sample without a touch, in a mode
\* selected before; the view becomes STILL only in such a poll
C37_SelectingPressIsConsumed ==
  [][TouchPollStep =>
       /\ appMode = "SELECT" /\ appMode' # "SELECT" =>
            /\ ~ModeTouchedInStep
            /\ wasTouching'
            /\ cart_' = cart_
            /\ viewState_' = "LIVE"
       /\ ModeTouchedInStep => ~wasTouching /\ appMode # "SELECT"
       /\ viewState_' = "STILL" /\ viewState_ # "STILL" =>
            /\ CalledInStep("CameraMode::onTouch", { "touch" })
            /\ ~wasTouching
            /\ appMode = "CAMERA"
  ]_vars

\* camera mode was selected by a press and the camera is ready: the press is
\* remembered, the view is LIVE and no onTouch was called
C37_Witness ==
  /\ pc = "cameraUpdate"
  /\ wasTouching
  /\ isCameraReady_
  /\ viewState_ = "LIVE"
  /\ CallsOf("handleModeSelectionTouch") # {}
  /\ CallsOf("CameraMode::onTouch") = {}

----------------------------------------------------------------------------
(* C38: the monolithic sketch and the dispatcher with its two modes *)

\* the position of loop() in the sketch that a position of the dispatcher's
\* loop() stands for
SketchPosition(position) ==
  IF position = "cameraUpdate" THEN "updateCameraState" ELSE position

\* inputs that the call at hand does not read
NoInputs ==
  [ isTouching |-> FALSE, point |-> <<0, 0>>, normalOk |-> FALSE, compactOk |-> FALSE,
    captureOk |-> FALSE, shutterWaitMs |-> 0, present |-> FALSE, readOk |-> FALSE,
    uidBytes |-> <<>>, rfidOk |-> FALSE ]

\* the inputs the call at a position may be given
SketchInputs(at) ==
  CASE at = "setup" ->
         { [NoInputs EXCEPT !.rfidOk = rfidOk] : rfidOk \in BOOLEAN }
    [] at = "pollTouchInput" ->
         { [NoInputs EXCEPT !.isTouching = isTouching, !.point = point,
                            !.normalOk = normalOk, !.compactOk = compactOk,
                            !.captureOk = captureOk, !.shutterWaitMs = shutterWaitMs] :
             isTouching \in BOOLEAN, point \in TouchPoints, normalOk \in BOOLEAN,
             compactOk \in BOOLEAN, captureOk \in BOOLEAN,
             shutterWaitMs \in ShutterToneWaits }
    [] at = "pollRfidCard" ->
         { [NoInputs EXCEPT !.present = present, !.readOk = readOk, !.uidBytes = uidBytes] :
             present \in BOOLEAN, readOk \in BOOLEAN, uidBytes \in CardUids }
    [] at = "updateCameraState" ->
         { [NoInputs EXCEPT !.captureOk = captureOk] : captureOk \in BOOLEAN }
    [] OTHER -> { NoInputs }

\* the sketch from one call of a mode's handler or poll to the next: outside
\* camera mode the call of updateCameraState() that ends the iteration is
\* made on the way
SketchStep(g, at, in) ==
  LET called == Sketch_loop(g, at, in)
  IN  IF called.at = "updateCameraState" /\ called.g.appMode # "CAMERA"
      THEN Sketch_loop(called.g, called.at, in)
      ELSE called

\* a step of the program, not of its environment
ProgramStep == pc # "pollTouchInput" \/ TouchPollStep

\* the touch sample of the step: its touch flag is the one remembered, its
\* point the one handed to a touch handler, if any
SampleOfStep(in) ==
  /\ pc = "pollTouchInput" => in.isTouching = wasTouching'
  /\ \A i \in HandlerCallsInStep : calls'[i].arg = in.point

\* C38: the sketch and the dispatcher, started in the same state and given the
\* same touch sample, the same bytes, the same card and the same clock, are in
\* the same state after every call of setup() and loop(): mode, application
\* state, cart, THANK_YOU timestamp, camera view and readiness, touch memory,
\* channel buffers, stream contents and clock are the same, and so is the call
\* that follows
C38_SketchAndDispatcherAgree ==
  [][ProgramStep =>
       \E in \in SketchInputs(SketchPosition(pc)) :
         /\ SampleOfStep(in)
         /\ LET after == SketchStep(Sketch, SketchPosition(pc), in)
            IN  /\ [after.g EXCEPT !.calls = <<>>] = Sketch'
                /\ after.at = SketchPosition(pc')
  ]_vars

\* register mode was selected and a code accepted; the card now polled pays in
\* the sketch as well
C38_Witness ==
  /\ pc = "pollRfidCard"
  /\ appMode = "REGISTER"
  /\ cart_ # <<>>
  /\ isRfidReady_
  /\ \E uidBytes \in CardUids :
       LET after == Sketch_pollRfidCard(Sketch, TRUE, TRUE, uidBytes)
       IN  after.appState = "THANK_YOU" /\ after.cart = <<>>

----------------------------------------------------------------------------
(* C39: the guard windows of the barcode UART after their deadlines *)

\* the conditions of the two discard branches of pollBarcodeSerial()
DiscardBranchTaken ==
  \/ U32Lt(millis, barcodeInputReadyAtMs_)
  \/ U32Lt(millis, barcodeCommandGuardUntilMs_)

\* C39: once the boot-stabilization deadline and the last command guard
\* deadline have passed (they have in the first state of the run, and no
\* command is sent later), no call of pollBarcodeSerial takes a discard
\* branch, also after the millisecond counter has wrapped
C39_NoDiscardAfterDeadlines ==
  /\ ~DiscardBranchTaken
  /\ [][ChannelStep("pollBarcodeSerial") => ~DiscardBranchTaken]_vars

----------------------------------------------------------------------------
(* C40: the control-response filter and the minimum length *)

\* handleBarcodeCode with the control-response filter removed
HandleBarcodeCodeUnfiltered(rm, rawCode) ==
  IF rm.appState # "NORMAL" THEN rm
  ELSE IF ~tryNormalizeInput(rawCode).ok THEN rm
  ELSE IF Len(tryNormalizeInput(rawCode).normalizedInput) < BARCODE_MIN_VALID_LENGTH THEN rm
  ELSE
    LET code == tryNormalizeInput(rawCode).normalizedInput
        toned == playScanTone(rm)
        item == ItemOf(code)
    IN  [toned EXCEPT !.cart = trimCartForDisplay(Append(rm.cart, item)),
                      !.accepted = Append(rm.accepted, code)]

\* frames around the limits of the filter: "3u", a quote, "$", "$AB", four and
\* five bytes behind a quote or a "$", "$12345", "$ABC123", a padded "$AB",
\* "3u" with a blank, the two codes
FilterProbes ==
  { STR_3u, <<34>>, <<36>>, STR_DOLLAR_AB, <<34, 65, 66, 67>>, <<36, 49, 50, 51>>,
    <<34, 65, 66, 67, 68>>, <<36, 49, 50, 51, 52>>, <<36, 49, 50, 51, 52, 53>>,
    <<36>> \o CODE_B, <<32>> \o STR_DOLLAR_AB, STR_3u \o <<32>>, CODE_A, CODE_B }

\* the register as it was before a logged call
BeforeCall(c) ==
  [Self EXCEPT !.cart = c.pre.cart, !.appState = c.pre.appState, !.millis = c.pre.millis]

\* C40: a frame that isBarcodeControlResponse takes for a control response has
\* a trimmed length below BARCODE_MIN_VALID_LENGTH, and the handler without
\* the filter leaves the cart as the handler does: for every frame handed to
\* handleBarcodeCode and for every probe, in every state
C40_FilterSubsumedByMinimumLength ==
  /\ \A i \in CallsOf("handleBarcodeCode") :
       /\ isBarcodeControlResponse(calls[i].arg) =>
            Len(Trim(calls[i].arg)) < BARCODE_MIN_VALID_LENGTH
       /\ HandleBarcodeCodeUnfiltered(BeforeCall(calls[i]), calls[i].arg).cart
            = calls[i].post.cart
  /\ \A frame \in FilterProbes :
       /\ isBarcodeControlResponse(frame) => Len(Trim(frame)) < BARCODE_MIN_VALID_LENGTH
       /\ isBarcodeControlResponse(frame) =>
            HandleBarcodeCodeUnfiltered(Self, frame).cart = handleBarcodeCode(Self, frame).cart

\* the scanner's "3u" reached handleBarcodeCode from the UART in state NORMAL
\* with an item in the cart
C40_Witness ==
  \E i \in CallsOf("handleBarcodeCode") :
    /\ calls[i].arg = STR_3u
    /\ calls[i].via = "barcodeSerial"
    /\ calls[i].pre.appState = "NORMAL"
    /\ calls[i].pre.cart # <<>>

============================================================================
